---- MODULE Spec2Model ----
(***************************************************************************)
(* A model of the resource-control core of resctl-demo:                    *)
(*   - rd-agent/src/slices.rs: apply_slices, clear_slices and              *)
(*     verify_and_fix_slices over the drop-in files, the unit manager's    *)
(*     override sets and the cgroupfs attribute files;                     *)
(*   - resctl-bench/src/run.rs: the run context, its minder thread and     *)
(*     the wait_cond primitive.                                            *)
(* Byte counts are scaled: one unit of the model is half a GiB.            *)
(***************************************************************************)
EXTENDS Integers, Sequences, FiniteSets, TLC

VARIABLES
    cfg,             \* Config: enforce flags and memcg_recursive_prot
    knobs,           \* SliceKnobs: slices, disable_seqs, work_mem_low_none
    hashd_mem_size,  \* the sizing input handed to apply_slices
    workload_senpai, \* the flag handed to verify_and_fix_slices
    broken,          \* the operation that fails in the environment, if any
    drift_left,      \* how many more external changes of cgroupfs may happen
    dropin,          \* drop-in files on disk: slice -> lines (absent: not in DOMAIN)
    loaded,          \* the drop-ins as the unit manager loaded them at its last reload
    cg,              \* cgroupfs: cgroup path -> file -> content
    units,           \* unit manager: unit name -> ControlGroup, state, overrides
    last,            \* the last operation: kind, predecessor, result, events in order
    \* The run context (run.rs).  Times are kept relative to the present: an
    \* age is the time since an instant, `left` the time until one.
    agent_svc,       \* RunCtxInner::agent_svc: None or Some(the unit's state as last refreshed)
    minder_state,    \* RunCtxInner::minder_state
    minder_jh,       \* RunCtxInner::minder_jh: None or Some(thread)
    agent_files,     \* RunCtxInner::agent_files: the agent's files as last refreshed
    mutex,           \* who holds the RunCtx mutex across steps: None or Some(minder thread)
    prog,            \* the global progress state and its pending kick
    minders,         \* the minder threads: position and locals of each
    main,            \* the thread that calls the RunCtx: position, call, result
    agent,           \* the agent as it is: its unit's state, its files, its command
    refresh_ok,      \* whether the unit manager answers a refresh
    budget           \* how many more events and calls a behaviour may contain

slice_vars ==
    <<cfg, knobs, hashd_mem_size, workload_senpai, broken, drift_left,
      dropin, loaded, cg, units, last>>

run_vars ==
    <<agent_svc, minder_state, minder_jh, agent_files, mutex, prog, minders, main,
      agent, refresh_ok, budget>>

vars == <<slice_vars, run_vars>>

(***************************************************************************)
(* Values of the environment.                                              *)
(***************************************************************************)
\* The per-boot generation counter (super::instance_seq()).
InstanceSeq == 2
\* total_memory(), in model units.
TotalMemory == 32
\* std::u64::MAX: the largest integer of the model stands for it.
U64_MAX == 2147483647

\* Option<T>: None is the empty set, Some(v) the singleton.
None == {}
Some(v) == {v}
IsSome(o) == o # {}
Unwrap(o) == CHOOSE v \in o : TRUE

Min(a, b) == IF a <= b THEN a ELSE b
Abs(a) == IF a < 0 THEN 0 - a ELSE a

\* str::ends_with and str::contains.
ends_with(s, t) ==
    Len(s) >= Len(t) /\ SubSeq(s, Len(s) - Len(t) + 1, Len(s)) = t
contains(s, t) ==
    \E i \in 1..(Len(s) - Len(t) + 1) : SubSeq(s, i, i + Len(t) - 1) = t

(***************************************************************************)
(* Slice (rd_agent_intf): the enumeration, unit names and cgroup paths.    *)
(***************************************************************************)
Slices == <<"Host", "Init", "System", "User", "Work", "Side">>
SliceSet == {Slices[i] : i \in 1..Len(Slices)}

name(slice) ==
    CASE slice = "Host" -> "hostcritical.slice"
      [] slice = "Init" -> "init.scope"
      [] slice = "System" -> "system.slice"
      [] slice = "User" -> "user.slice"
      [] slice = "Work" -> "workload.slice"
      [] slice = "Side" -> "sideload.slice"

CgroupRoot == "/sys/fs/cgroup"
SliceCgrp == [slice \in SliceSet |-> CgroupRoot \o "/" \o name(slice)]
cgrp(slice) == SliceCgrp[slice]

(***************************************************************************)
(* MemoryKnob (rd_agent_intf) and its encodings.                           *)
(***************************************************************************)
KNone == [t |-> "None", v |-> 0]
KMax == [t |-> "Max", v |-> 0]
Bytes(n) == [t |-> "Bytes", v |-> n]
Percent(p) == [t |-> "Percent", v |-> p]

nr_bytes(knob, is_limit) ==
    CASE knob.t = "None" -> IF is_limit THEN U64_MAX ELSE 0
      [] knob.t = "Max" -> U64_MAX
      [] knob.t = "Bytes" -> knob.v
      [] knob.t = "Percent" -> (knob.v * TotalMemory) \div 100

u64_to_cgrp_string(v) == IF v = U64_MAX THEN "max" ELSE ToString(v)
mknob_to_cgrp_string(knob, is_limit) == u64_to_cgrp_string(nr_bytes(knob, is_limit))

u64_to_systemd_string(v) == IF v = U64_MAX THEN "infinity" ELSE ToString(v)
mknob_to_systemd_string(knob, is_limit) == u64_to_systemd_string(nr_bytes(knob, is_limit))

mknob_to_unit_resctl(knob) ==
    IF knob.t = "None" THEN None ELSE Some(nr_bytes(knob, TRUE))

slice_needs_mem_prot_propagation(slice) == slice \notin {"Work", "Side"}
slice_needs_start_stop(slice) == slice = "Side"
slice_needs_crit_mem_prot(slice) == slice \in {"Host", "Init"}
slice_enforce_mem(ecfg, slice) ==
    ecfg.mem \/ (ecfg.crit_mem_prot /\ slice_needs_crit_mem_prot(slice))

\* Passes that go through every slice whatever is enforced.
slice_enforced_all(ecfg, slice) == TRUE

\* The early `continue` of apply_slices and clear_slices.
slice_enforced(ecfg, slice) ==
    ecfg.cpu \/ slice_enforce_mem(ecfg, slice) \/ ecfg.io

(***************************************************************************)
(* build_configlet: the drop-in body, one string per line.                 *)
(***************************************************************************)
Banner == "# Generated by rd-agent. Do not edit directly."

weight_line(key, w) ==
    IF IsSome(w) THEN <<key \o "=" \o ToString(Unwrap(w))>> ELSE <<>>
mknob_line(key, m, is_limit) ==
    IF IsSome(m) THEN <<key \o "=" \o mknob_to_systemd_string(Unwrap(m), is_limit)>>
    ELSE <<>>

\* A variant that writes the io weight before the cpu weight.
build_configlet_io_first(slice, cpu_weight, io_weight, mem_min, mem_low, mem_high) ==
    <<Banner, IF ends_with(name(slice), ".slice") THEN "[Slice]" ELSE "[Scope]">>
        \o weight_line("IOWeight", io_weight)
        \o weight_line("CPUWeight", cpu_weight)
        \o mknob_line("MemoryMin", mem_min, FALSE)
        \o mknob_line("MemoryLow", mem_low, FALSE)
        \o mknob_line("MemoryHigh", mem_high, TRUE)

build_configlet(slice, cpu_weight, io_weight, mem_min, mem_low, mem_high) ==
    <<Banner, IF ends_with(name(slice), ".slice") THEN "[Slice]" ELSE "[Scope]">>
        \o weight_line("CPUWeight", cpu_weight)
        \o weight_line("IOWeight", io_weight)
        \o mknob_line("MemoryMin", mem_min, FALSE)
        \o mknob_line("MemoryLow", mem_low, FALSE)
        \o mknob_line("MemoryHigh", mem_high, TRUE)

(***************************************************************************)
(* The cgroup tree.  AllCgroups lists every cgroup the model knows, in the *)
(* order glob() yields them; the cgroups that exist are DOMAIN cg.         *)
(***************************************************************************)
\* How many of the descendant cgroups below exist.
MaxDesc == 3

DescCgroups ==
    <<cgrp("System") \o "/sub.slice",
      cgrp("System") \o "/sub.slice/b.scope",
      cgrp("System") \o "/sshd.service",
      cgrp("Work") \o "/w.service">>

Descendants == {DescCgroups[i] : i \in 1..Min(MaxDesc, Len(DescCgroups))}

AllCgroups ==
    <<CgroupRoot,
      cgrp("Host"), cgrp("Init"), cgrp("Side"),
      cgrp("System"), cgrp("System") \o "/sshd.service",
      cgrp("System") \o "/sub.slice", cgrp("System") \o "/sub.slice/b.scope",
      cgrp("User"),
      cgrp("Work"), cgrp("Work") \o "/w.service">>
CgroupSet == {AllCgroups[i] : i \in 1..Len(AllCgroups)}

is_under(p, par) ==
    Len(p) > Len(par) + 1 /\ SubSeq(p, 1, Len(par) + 1) = par \o "/"

\* Path::file_name.
RECURSIVE last_slash(_, _)
last_slash(p, i) == IF i = 0 \/ SubSeq(p, i, i) = "/" THEN i ELSE last_slash(p, i - 1)
file_name(p) == SubSeq(p, last_slash(p, Len(p)) + 1, Len(p))
\* path.components().skip(4) folded with "/": the path below the cgroup root.
trimmed(p) == SubSeq(p, Len(CgroupRoot) + 1, Len(p))

FileNameOf == [p \in CgroupSet |-> file_name(p)]
TrimmedOf == [p \in CgroupSet |-> trimmed(p)]

\* glob(par/**/*suffix) over every cgroup of the model, and over those of cgs.
RECURSIVE glob_from(_, _, _)
glob_from(par, suffix, i) ==
    IF i > Len(AllCgroups) THEN <<>>
    ELSE IF is_under(AllCgroups[i], par) /\ ends_with(AllCgroups[i], suffix)
    THEN <<AllCgroups[i]>> \o glob_from(par, suffix, i + 1)
    ELSE glob_from(par, suffix, i + 1)

GlobSuffixes == {".service", ".scope", ".slice", ""}
GlobTable ==
    [slice \in SliceSet |-> [suffix \in GlobSuffixes |-> glob_from(cgrp(slice), suffix, 1)]]

RECURSIVE existing(_, _)
existing(paths, cgs) ==
    IF paths = <<>> THEN <<>>
    ELSE IF Head(paths) \in DOMAIN cgs THEN <<Head(paths)>> \o existing(Tail(paths), cgs)
    ELSE existing(Tail(paths), cgs)

glob_units(cgs, slice, suffix) == existing(GlobTable[slice][suffix], cgs)

(***************************************************************************)
(* cgroupfs attribute files: read_one_line, write_one_line and parsing.    *)
(***************************************************************************)
Controllers == <<"cpuset", "cpu", "io", "memory", "pids">>
ControllerSet == {Controllers[i] : i \in 1..Len(Controllers)}

AttrFiles ==
    {"cpu.weight", "io.weight", "memory.min", "memory.low", "memory.high", "memory.max"}

\* A cgroup as the kernel creates it.
NewCgroup ==
    [f \in AttrFiles \cup {"cgroup.subtree_control"} |->
        CASE f = "cpu.weight" -> "100"
          [] f = "io.weight" -> "default 100"
          [] f \in {"memory.min", "memory.low"} -> "0"
          [] f \in {"memory.high", "memory.max"} -> "max"
          [] f = "cgroup.subtree_control" -> ""]

Digit(c) ==
    CASE c = "0" -> 0 [] c = "1" -> 1 [] c = "2" -> 2 [] c = "3" -> 3 [] c = "4" -> 4
      [] c = "5" -> 5 [] c = "6" -> 6 [] c = "7" -> 7 [] c = "8" -> 8 [] c = "9" -> 9
      [] OTHER -> -1

\* str::parse::<u64> (and scan_fmt's {d}): None unless the text is a number.
RECURSIVE parse_digits(_, _, _)
parse_digits(s, i, acc) ==
    IF i > Len(s) THEN Some(acc)
    ELSE IF Digit(SubSeq(s, i, i)) < 0 THEN None
    ELSE parse_digits(s, i + 1, acc * 10 + Digit(SubSeq(s, i, i)))
parse_u64(s) == IF Len(s) = 0 THEN None ELSE parse_digits(s, 1, 0)

\* scan_fmt!(line, "default {d}", u32)
parse_io_weight(line) ==
    IF Len(line) > 8 /\ SubSeq(line, 1, 8) = "default "
    THEN parse_u64(SubSeq(line, 9, Len(line))) ELSE None

\* cgroup.subtree_control as the kernel shows it: the enabled controllers in
\* the kernel's order, separated by blanks.
RECURSIVE sc_render(_, _)
sc_render(on, i) ==
    IF i > Len(Controllers) THEN ""
    ELSE IF Controllers[i] \notin on THEN sc_render(on, i + 1)
    ELSE IF sc_render(on, i + 1) = "" THEN Controllers[i]
    ELSE Controllers[i] \o " " \o sc_render(on, i + 1)

ScLineOf == [on \in SUBSET ControllerSet |-> sc_render(on, 1)]
ScLines == {ScLineOf[on] : on \in SUBSET ControllerSet}
ScSetOf == [line \in ScLines |-> CHOOSE on \in SUBSET ControllerSet : ScLineOf[on] = line]
\* line.contains(..) for the three words verify_and_fix_slices looks for.
ScContains == [line \in ScLines |-> [w \in {"cpu", "io", "memory"} |-> contains(line, w)]]

\* The strings fix_overrides writes, and the kernel's reading of each: the
\* controllers its whitespace-separated +X and -X tokens switch on and off.
has_token(edit, tok) == contains(edit \o " ", " " \o tok \o " ")
EditStrings ==
    {d \o c \o i \o m : d \in {"", " -cpu"}, c \in {"", " +cpu"},
                        i \in {"", " +io"}, m \in {"", " +memory"}}
EditOn == [e \in EditStrings |-> {c \in ControllerSet : has_token(e, "+" \o c)}]
EditOff == [e \in EditStrings |-> {c \in ControllerSet : has_token(e, "-" \o c)}]
sc_edit(line, edit) == ScLineOf[(ScSetOf[line] \cup EditOn[edit]) \ EditOff[edit]]

(***************************************************************************)
(* The unit manager (util::systemd): an override set per unit.             *)
(***************************************************************************)
UnitResCtlDefault ==
    [cpu_weight |-> None, io_weight |-> None, mem_min |-> None,
     mem_low |-> None, mem_high |-> None, mem_max |-> None]

NoFault == <<"none">>

\* A pass threads this record through its steps: the surfaces, the events so
\* far, the `updated` flag and the result.
PassStart(d, l, u, c) ==
    [dropin |-> d, loaded |-> l, units |-> u, cg |-> c,
     ev |-> <<>>, updated |-> FALSE, ret |-> "Ok"]

Emit(st, e) == [st EXCEPT !.ev = Append(@, e)]
Fail(st, e) == [st EXCEPT !.ev = Append(@, e), !.ret = "Err"]

\* Unit::apply: flush the override set to the unit manager.
unit_apply(st, unit, resctl, flt) ==
    IF flt = <<"apply", unit>> THEN Fail(st, <<"unit_apply_failed", unit>>)
    ELSE [st EXCEPT !.units[unit].resctl = resctl, !.ev = Append(@, <<"unit_apply", unit>>)]

\* A caller that gives up when the apply fails.
unit_apply_fatal(st, unit, resctl, flt) == unit_apply(st, unit, resctl, flt)

\* A cascade that sets the two protections and keeps the other overrides.
unit_apply_merged(st, unit, resctl, flt) ==
    [unit_apply(st, unit,
                [st.units[unit].resctl EXCEPT !.mem_min = resctl.mem_min,
                                              !.mem_low = resctl.mem_low],
                flt) EXCEPT !.ret = st.ret]

\* The same where the caller only logs the error.
unit_apply_logged(st, unit, resctl, flt) ==
    [unit_apply(st, unit, resctl, flt) EXCEPT !.ret = st.ret]

\* write_one_line on an attribute file: the kernel stores what was written.
cg_write(st, path, file, content, flt) ==
    IF flt = <<"cgwrite", path, file>> THEN Fail(st, <<"cg_write_failed", path, file>>)
    ELSE [st EXCEPT !.cg[path][file] = content,
                    !.ev = Append(@, <<"cg_write", path, file, content>>)]

\* Unit::try_start_nowait; an active slice has a cgroup.
unit_start(st, slice, flt) ==
    IF flt = <<"lookup", name(slice)>> THEN Emit(st, <<"unit_lookup_failed", name(slice)>>)
    ELSE IF flt = <<"start", name(slice)>> THEN Emit(st, <<"unit_start_failed", name(slice)>>)
    ELSE [st EXCEPT !.cg = [p \in DOMAIN st.cg \cup {cgrp(slice)} |->
                               IF p \in DOMAIN st.cg THEN st.cg[p] ELSE NewCgroup],
                    !.ev = Append(@, <<"unit_start", name(slice)>>)]

\* Unit::stop; the cgroup of a stopped slice is gone.
unit_stop(st, slice, flt) ==
    IF flt = <<"stop", name(slice)>> THEN Emit(st, <<"unit_stop_failed", name(slice)>>)
    ELSE [st EXCEPT !.cg = [p \in DOMAIN st.cg \ {cgrp(slice)} |-> st.cg[p]],
                    !.ev = Append(@, <<"unit_stop", name(slice)>>)]

(***************************************************************************)
(* apply_configlet.  Its Ok(true) is folded into the pass's `updated`.     *)
(***************************************************************************)
write_unit_configlet(st, slice, configlet) ==
    [st EXCEPT !.dropin = [s \in DOMAIN st.dropin \cup {slice} |->
                              IF s = slice THEN configlet ELSE st.dropin[s]],
               !.ev = Append(@, <<"dropin_write", slice>>),
               !.updated = TRUE]

\* A variant that takes every drop-in for changed.
configlet_always_changed(d, slice, configlet) == FALSE

configlet_unchanged(d, slice, configlet) ==
    slice \in DOMAIN d /\ d[slice] = configlet

apply_configlet(st, slice, configlet, flt) ==
    IF slice \in DOMAIN st.dropin /\ flt = <<"read", slice>>
    THEN Fail(st, <<"dropin_read_failed", slice>>)
    ELSE IF configlet_unchanged(st.dropin, slice, configlet) THEN st
    ELSE IF flt = <<"write", slice>> THEN Fail(st, <<"dropin_write_failed", slice>>)
    ELSE IF slice_needs_start_stop(slice)
    THEN unit_start(write_unit_configlet(st, slice, configlet), slice, flt)
    ELSE write_unit_configlet(st, slice, configlet)

(***************************************************************************)
(* propagate_one_slice: cascade an override set into the descendant units. *)
(***************************************************************************)
\* A cascade that does not look at the state of the unit.
propagate_unit_any_state(st, path, resctl, flt) ==
    IF flt = <<"lookup", FileNameOf[path]>> THEN st
    ELSE IF st.units[FileNameOf[path]].cgroup # TrimmedOf[path] THEN st
    ELSE IF st.units[FileNameOf[path]].resctl = resctl THEN st
    ELSE unit_apply_logged(st, FileNameOf[path], resctl, flt)

\* Lines 184-235: one unit found by the globs.
propagate_unit(st, path, resctl, flt) ==
    IF flt = <<"lookup", FileNameOf[path]>> THEN st
    ELSE IF st.units[FileNameOf[path]].cgroup # TrimmedOf[path] THEN st
    ELSE IF st.units[FileNameOf[path]].state \notin {"Running", "OtherActive"} THEN st
    ELSE IF st.units[FileNameOf[path]].resctl = resctl THEN st
    ELSE unit_apply_logged(st, FileNameOf[path], resctl, flt)

RECURSIVE propagate_loop(_, _, _, _)
propagate_loop(st, paths, resctl, flt) ==
    IF paths = <<>> THEN st
    ELSE propagate_loop(propagate_unit(st, Head(paths), resctl, flt),
                        Tail(paths), resctl, flt)

propagate_one_slice(st, slice, resctl, flt) ==
    propagate_loop(Emit(st, <<"propagate", slice, resctl>>),
                   glob_units(st.cg, slice, ".service")
                       \o glob_units(st.cg, slice, ".scope")
                       \o glob_units(st.cg, slice, ".slice"),
                   resctl, flt)

(***************************************************************************)
(* apply_slices                                                            *)
(***************************************************************************)
\* A variant that rounds three quarters of the size down.
work_mem_low_floor(hms) == (hms * 3) \div 4

\* ((hashd_mem_size as f64) * 0.75).ceil() as u64
work_mem_low(hms) == (hms * 3 + 3) \div 4

\* Lines 241-244: the Work slice's mem_low is rewritten in the knobs.
apply_knobs(kn, hms) ==
    IF kn.work_mem_low_none
    THEN [kn EXCEPT !.slices["Work"].mem_low = Bytes(work_mem_low(hms))]
    ELSE kn

\* A variant that keeps mem_low for Work whatever disable_seqs.mem is.
slice_configlet_ungated(kn, c, slice) ==
    build_configlet(
        slice,
        IF c.enforce.cpu THEN Some(kn.slices[slice].cpu_weight) ELSE None,
        IF c.enforce.io THEN Some(kn.slices[slice].io_weight) ELSE None,
        IF slice_enforce_mem(c.enforce, slice) THEN Some(kn.slices[slice].mem_min) ELSE None,
        IF slice_enforce_mem(c.enforce, slice) THEN Some(kn.slices[slice].mem_low) ELSE None,
        IF slice_enforce_mem(c.enforce, slice) THEN Some(kn.slices[slice].mem_high) ELSE None)

\* The configlet apply_slices builds for one slice (lines 254-280).
slice_configlet(kn, c, slice) ==
    build_configlet(
        slice,
        IF c.enforce.cpu THEN Some(kn.slices[slice].cpu_weight) ELSE None,
        IF c.enforce.io THEN Some(kn.slices[slice].io_weight) ELSE None,
        IF slice_enforce_mem(c.enforce, slice) THEN Some(kn.slices[slice].mem_min) ELSE None,
        IF slice_enforce_mem(c.enforce, slice)
           /\ ~(slice = "Work" /\ kn.disable_seqs.mem >= InstanceSeq)
        THEN Some(kn.slices[slice].mem_low) ELSE None,
        IF slice_enforce_mem(c.enforce, slice) THEN Some(kn.slices[slice].mem_high) ELSE None)

\* A cascade that takes no notice of the kernel's recursive protection.
cascade_resctl_classic(kn, c, slice) ==
    [UnitResCtlDefault EXCEPT !.mem_min = mknob_to_unit_resctl(kn.slices[slice].mem_min),
                              !.mem_low = mknob_to_unit_resctl(kn.slices[slice].mem_low)]

\* The override set apply_slices cascades below a slice (lines 286-292).
cascade_resctl(kn, c, slice) ==
    IF ~c.memcg_recursive_prot
    THEN [UnitResCtlDefault EXCEPT !.mem_min = mknob_to_unit_resctl(kn.slices[slice].mem_min),
                                   !.mem_low = mknob_to_unit_resctl(kn.slices[slice].mem_low)]
    ELSE UnitResCtlDefault

\* Lines 285-295, reached unless apply_configlet failed.
apply_propagate(st, kn, c, slice, flt) ==
    IF st.ret = "Err" THEN st
    ELSE IF slice_enforce_mem(c.enforce, slice) /\ slice_needs_mem_prot_propagation(slice)
    THEN propagate_one_slice(st, slice, cascade_resctl(kn, c, slice), flt)
    ELSE st

\* One iteration of the loop over the slices (lines 247-296).
apply_one_slice(st, kn, c, slice, flt) ==
    IF ~slice_enforced(c.enforce, slice) THEN st
    ELSE apply_propagate(apply_configlet(st, slice, slice_configlet(kn, c, slice), flt),
                         kn, c, slice, flt)

RECURSIVE apply_loop(_, _, _, _, _)
apply_loop(st, kn, c, i, flt) ==
    IF i > Len(Slices) \/ st.ret = "Err" THEN st
    ELSE apply_loop(apply_one_slice(st, kn, c, Slices[i], flt), kn, c, i + 1, flt)

\* systemd::daemon_reload: the unit manager reads the unit files again.
daemon_reload(st, flt) ==
    IF flt = <<"daemon_reload">> THEN Fail(st, <<"daemon_reload_failed">>)
    ELSE [st EXCEPT !.loaded = st.dropin, !.ev = Append(@, <<"daemon_reload">>)]

iocost_on_off(st, enable, flt) ==
    IF flt = <<"iocost">> THEN Fail(st, <<"iocost_failed">>)
    ELSE Emit(st, <<"iocost", IF enable THEN "on" ELSE "off">>)

\* Lines 297-300.
reload_if_updated(st, flt) ==
    IF st.ret = "Ok" /\ st.updated THEN daemon_reload(st, flt) ELSE st

\* Lines 302-308.
apply_iocost(st, kn, flt) ==
    IF st.ret = "Err" THEN st
    ELSE iocost_on_off(st, kn.disable_seqs.io < InstanceSeq, flt)

\* kn is the knobs after apply_knobs.
apply_slices(st, kn, c, flt) ==
    apply_iocost(reload_if_updated(apply_loop(st, kn, c, 1, flt), flt), kn, flt)

(***************************************************************************)
(* clear_slices                                                            *)
(***************************************************************************)
\* Lines 314-323: the override set with the enforced resources dropped.
cleared_resctl(resctl, slice, ecfg) ==
    [cpu_weight |-> IF ecfg.cpu THEN None ELSE resctl.cpu_weight,
     io_weight |-> IF ecfg.io THEN None ELSE resctl.io_weight,
     mem_min |-> IF slice_enforce_mem(ecfg, slice) THEN None ELSE resctl.mem_min,
     mem_low |-> IF slice_enforce_mem(ecfg, slice) THEN None ELSE resctl.mem_low,
     mem_high |-> resctl.mem_high,
     mem_max |-> resctl.mem_max]

\* Lines 327-331.
clear_stop(st, slice, flt) ==
    IF slice_needs_start_stop(slice) THEN unit_stop(st, slice, flt) ELSE st

\* Lines 312-340: every failure is logged only.
clear_unit(st, slice, ecfg, flt) ==
    IF flt = <<"lookup", name(slice)>> THEN Emit(st, <<"unit_lookup_failed", name(slice)>>)
    ELSE clear_stop(unit_apply_logged(st, name(slice),
                                      cleared_resctl(st.units[name(slice)].resctl, slice, ecfg),
                                      flt),
                    slice, flt)

\* Lines 342-349 with the caller's match (361-369): Ok(true) sets `updated`,
\* an error is logged by clear_slices and the loop goes on.
clear_dropin(st, slice, flt) ==
    IF slice \notin DOMAIN st.dropin THEN st
    ELSE IF flt = <<"remove", slice>> THEN Emit(st, <<"dropin_remove_failed", slice>>)
    ELSE [st EXCEPT !.dropin = [s \in DOMAIN st.dropin \ {slice} |-> st.dropin[s]],
                    !.ev = Append(@, <<"dropin_remove", slice>>),
                    !.updated = TRUE]

\* A variant that gives up on a slice whose unit cannot be looked up.
clear_one_slice_unit_first(st, slice, ecfg, flt) ==
    IF flt = <<"lookup", name(slice)>> THEN Emit(st, <<"unit_lookup_failed", name(slice)>>)
    ELSE clear_dropin(clear_unit(st, slice, ecfg, flt), slice, flt)

clear_one_slice(st, slice, ecfg, flt) ==
    clear_dropin(clear_unit(st, slice, ecfg, flt), slice, flt)

\* Lines 371-373.
clear_propagate(st, slice, ecfg, flt) ==
    IF slice_enforce_mem(ecfg, slice) /\ slice_needs_mem_prot_propagation(slice)
    THEN propagate_one_slice(st, slice, UnitResCtlDefault, flt)
    ELSE st

clear_loop_body(st, ecfg, slice, flt) ==
    IF ~slice_enforced(ecfg, slice) THEN st
    ELSE clear_propagate(clear_one_slice(st, slice, ecfg, flt), slice, ecfg, flt)

RECURSIVE clear_loop(_, _, _, _)
clear_loop(st, ecfg, i, flt) ==
    IF i > Len(Slices) \/ st.ret = "Err" THEN st
    ELSE clear_loop(clear_loop_body(st, ecfg, Slices[i], flt), ecfg, i + 1, flt)

clear_slices(st, ecfg, flt) ==
    reload_if_updated(clear_loop(st, ecfg, 1, flt), flt)

(***************************************************************************)
(* fix_overrides: the controller subtree toggler.                          *)
(***************************************************************************)
sc_write(st, path, edit, flt) ==
    IF flt = <<"scwrite", path>> THEN Fail(st, <<"sc_write_failed", path, edit>>)
    ELSE [st EXCEPT !.cg[path]["cgroup.subtree_control"] = sc_edit(@, edit),
                    !.ev = Append(@, <<"sc_write", path, edit>>)]

\* A variant that sorts the shortest path first.
RECURSIVE sort_by_len_ascending(_)
sort_by_len_ascending(paths) ==
    IF paths = {} THEN {<<>>}
    ELSE UNION {{<<p>> \o rest : rest \in sort_by_len_ascending(paths \ {p})} :
                p \in {q \in paths : \A r \in paths : Len(q) <= Len(r)}}

\* The outcomes of scs.sort_unstable_by_key(|x| -(x.len())): every order of
\* the paths by non-increasing length (the order among equal lengths is not
\* specified).
RECURSIVE sort_unstable_by_len(_)
sort_unstable_by_len(paths) ==
    IF paths = {} THEN {<<>>}
    ELSE UNION {{<<p>> \o rest : rest \in sort_unstable_by_len(paths \ {p})} :
                p \in {q \in paths : \A r \in paths : Len(r) <= Len(q)}}

\* A variant that enables the cpu controller whatever the gate says.
enable_string_ungated(dseqs, c) ==
    (IF c.enforce.cpu THEN " +cpu" ELSE "")
        \o (IF c.enforce.io THEN " +io" ELSE "")
        \o (IF c.enforce.crit_mem_prot THEN " +memory" ELSE "")

\* Lines 383-399: the two strings.
disable_string(dseqs, c) ==
    IF c.enforce.cpu /\ ~(dseqs.cpu < InstanceSeq) THEN " -cpu" ELSE ""
enable_string(dseqs, c) ==
    (IF c.enforce.cpu /\ dseqs.cpu < InstanceSeq THEN " +cpu" ELSE "")
        \o (IF c.enforce.io THEN " +io" ELSE "")
        \o (IF c.enforce.crit_mem_prot THEN " +memory" ELSE "")

\* The loop over scs (lines 410-420): a failed write is counted, never fatal.
RECURSIVE disable_loop(_, _, _, _)
disable_loop(st, scs, disable, flt) ==
    IF scs = <<>> THEN st
    ELSE disable_loop([sc_write(st, Head(scs), disable, flt) EXCEPT !.ret = "Ok"],
                      Tail(scs), disable, flt)

fix_disable(st, disable, scs, flt) ==
    IF Len(disable) > 0 THEN disable_loop(st, scs, disable, flt) ELSE st
\* A toggler that only logs a failed enable write.
fix_enable_logged(st, enable, flt) ==
    IF Len(enable) > 0 THEN [sc_write(st, CgroupRoot, enable, flt) EXCEPT !.ret = st.ret]
    ELSE st

\* Lines 430-432.
fix_enable(st, enable, flt) ==
    IF Len(enable) > 0 THEN sc_write(st, CgroupRoot, enable, flt) ELSE st

\* scs is the sorted list of line 407.
fix_overrides(st, dseqs, c, scs, flt) ==
    fix_enable(fix_disable(st, disable_string(dseqs, c), scs, flt),
               enable_string(dseqs, c), flt)

(***************************************************************************)
(* fix_slice_cpu, fix_slice_io, fix_cgrp_mem, fix_slice_mem                *)
(***************************************************************************)
\* A verifier that reads cpu.weight and leaves it as it is.
fix_slice_cpu_readonly(st, sk, path, enable, flt) ==
    IF ~enable THEN st
    ELSE IF flt = <<"cgread", path, "cpu.weight">>
    THEN Fail(st, <<"cg_read_failed", path, "cpu.weight">>)
    ELSE st

fix_slice_cpu(st, sk, path, enable, flt) ==
    IF ~enable THEN st
    ELSE IF flt = <<"cgread", path, "cpu.weight">>
    THEN Fail(st, <<"cg_read_failed", path, "cpu.weight">>)
    ELSE IF parse_u64(st.cg[path]["cpu.weight"]) = Some(sk.cpu_weight) THEN st
    ELSE cg_write(st, path, "cpu.weight", ToString(sk.cpu_weight), flt)

fix_slice_io(st, sk, path, enable, flt) ==
    IF ~enable THEN st
    ELSE IF flt = <<"cgread", path, "io.weight">>
    THEN Fail(st, <<"cg_read_failed", path, "io.weight">>)
    ELSE IF parse_io_weight(st.cg[path]["io.weight"]) = Some(sk.io_weight) THEN st
    ELSE cg_write(st, path, "io.weight", "default " \o ToString(sk.io_weight), flt)

\* Lines 480-483.
parse_mem(line) == IF line = "max" THEN Some(U64_MAX) ELSE parse_u64(line)

\* A variant that accepts equal values only.
within_tolerance_exact(v, target) == target = v

\* Line 490 on the clamped values:
\* target == v || (target > 0 && ((v - target) / target).abs() < 0.1).
within_tolerance(v, target) ==
    target = v \/ (target > 0 /\ Abs(v - target) * 10 < target)

\* Lines 484-493: TRUE when the value read needs no fix.
mem_settled(cur, is_limit, knob) ==
    /\ IsSome(cur)
    /\ within_tolerance(Min(Unwrap(cur), TotalMemory),
                        Min(nr_bytes(knob, is_limit), TotalMemory))

\* A fix that reflects every memory file into the mem_low override.
set_mem_override_low(resctl, file, nr) == [resctl EXCEPT !.mem_low = Some(nr)]

\* The override field fix_cgrp_mem sets for a memory file (lines 518-524).
set_mem_override(resctl, file, nr) ==
    CASE file = "memory.min" -> [resctl EXCEPT !.mem_min = Some(nr)]
      [] file = "memory.low" -> [resctl EXCEPT !.mem_low = Some(nr)]
      [] file = "memory.high" -> [resctl EXCEPT !.mem_high = Some(nr)]
      [] file = "memory.max" -> [resctl EXCEPT !.mem_max = Some(nr)]
      [] OTHER -> resctl

\* Line 512.
is_unit_name(n) ==
    ends_with(n, ".service") \/ ends_with(n, ".scope") \/ ends_with(n, ".slice")
IsUnitCgroup == [p \in CgroupSet |-> is_unit_name(FileNameOf[p])]

\* Lines 501-525, reached after the write of line 499.
fix_cgrp_unit(st, path, file, is_limit, knob, flt) ==
    IF st.ret = "Err" THEN st
    ELSE IF ~IsUnitCgroup[path] THEN st
    ELSE IF flt = <<"lookup", FileNameOf[path]>>
    THEN Fail(st, <<"unit_lookup_failed", FileNameOf[path]>>)
    ELSE unit_apply(st, FileNameOf[path],
                    set_mem_override(st.units[FileNameOf[path]].resctl, file,
                                     nr_bytes(knob, is_limit)),
                    flt)

\* Lines 494-498: the message "<path> should be <expected> but is <line>, fixing".
mem_fix_info(st, path, file, expected) ==
    Emit(st, <<"mem_fix", path, file, expected, st.cg[path][file]>>)

fix_cgrp_mem(st, path, file, is_limit, knob, flt) ==
    IF flt = <<"cgread", path, file>> THEN Fail(st, <<"cg_read_failed", path, file>>)
    ELSE IF mem_settled(parse_mem(st.cg[path][file]), is_limit, knob) THEN st
    ELSE fix_cgrp_unit(cg_write(mem_fix_info(st, path, file,
                                             mknob_to_cgrp_string(knob, is_limit)),
                                path, file, mknob_to_cgrp_string(knob, is_limit), flt),
                       path, file, is_limit, knob, flt)

\* The loop of fix_recursive_mem_prot: an error is logged and the loop goes on.
RECURSIVE fix_recursive_loop(_, _, _, _, _)
fix_recursive_loop(st, paths, file, knob, flt) ==
    IF paths = <<>> THEN st
    ELSE fix_recursive_loop([fix_cgrp_mem(st, Head(paths), file, FALSE, knob, flt)
                                 EXCEPT !.ret = "Ok"],
                            Tail(paths), file, knob, flt)

\* glob(parent/*/**/file): the cgroups strictly below the slice, in glob order.
fix_recursive_mem_prot(st, slice, file, knob, flt) ==
    fix_recursive_loop(st, glob_units(st.cg, slice, ""), file, knob, flt)

\* The calls fix_slice_mem makes, in order (lines 551-572).
MemCall(kind, file, is_limit, knob) ==
    [kind |-> kind, file |-> file, is_limit |-> is_limit, knob |-> knob]

fix_slice_mem_calls(sk, enable, verify_mem_high, propagate_mem_prot, recursive_mem_prot) ==
    IF enable
    THEN <<MemCall("cgrp", "memory.min", FALSE, sk.mem_min),
           MemCall("cgrp", "memory.low", FALSE, sk.mem_low),
           MemCall("cgrp", "memory.max", TRUE, KNone)>>
         \o (IF verify_mem_high
             THEN <<MemCall("cgrp", "memory.high", TRUE, sk.mem_high)>> ELSE <<>>)
         \o (IF ~propagate_mem_prot THEN <<>>
             ELSE IF recursive_mem_prot
             THEN <<MemCall("recursive", "memory.min", FALSE, Bytes(0)),
                    MemCall("recursive", "memory.low", FALSE, Bytes(0))>>
             ELSE <<MemCall("recursive", "memory.min", FALSE, sk.mem_min),
                    MemCall("recursive", "memory.low", FALSE, sk.mem_low)>>)
    ELSE <<MemCall("cgrp", "memory.min", FALSE, KNone),
           MemCall("cgrp", "memory.low", FALSE, KNone)>>

mem_call(st, slice, call, flt) ==
    IF call.kind = "cgrp"
    THEN fix_cgrp_mem(st, cgrp(slice), call.file, call.is_limit, call.knob, flt)
    ELSE fix_recursive_mem_prot(st, slice, call.file, call.knob, flt)

\* Each call is followed by `?`.
RECURSIVE mem_calls(_, _, _, _)
mem_calls(st, slice, calls, flt) ==
    IF calls = <<>> \/ st.ret = "Err" THEN st
    ELSE mem_calls(mem_call(st, slice, Head(calls), flt), slice, Tail(calls), flt)

fix_slice_mem(st, sk, slice, enable, verify_mem_high, propagate_mem_prot, recursive_mem_prot, flt) ==
    mem_calls(st, slice,
              fix_slice_mem_calls(sk, enable, verify_mem_high, propagate_mem_prot,
                                  recursive_mem_prot),
              flt)

(***************************************************************************)
(* verify_and_fix_slices                                                   *)
(***************************************************************************)
\* The controller check of lines 585-587 on the root cgroup.subtree_control.
overrides_disagree(line, dseqs, c) ==
    \/ (c.enforce.cpu /\ ((dseqs.cpu < InstanceSeq) # ScContains[line]["cpu"]))
    \/ (c.enforce.io /\ ~ScContains[line]["io"])
    \/ (c.enforce.crit_mem_prot /\ ~ScContains[line]["memory"])

\* Lines 603-605.
verify_cpu(st, kn, c, slice, flt) ==
    IF c.enforce.cpu
    THEN fix_slice_cpu(st, kn.slices[slice], cgrp(slice), kn.disable_seqs.cpu < InstanceSeq, flt)
    ELSE st

\* Lines 606-608.
verify_io(st, kn, c, slice, flt) ==
    IF st.ret = "Ok" /\ c.enforce.io
    THEN fix_slice_io(st, kn.slices[slice], cgrp(slice), kn.disable_seqs.io < InstanceSeq, flt)
    ELSE st

\* A verifier that checks memory.high of the Work slice whatever runs in it.
verify_mem_high_always(st, kn, senpai, c, slice, flt) ==
    IF st.ret = "Ok" /\ slice_enforce_mem(c.enforce, slice)
    THEN fix_slice_mem(st, kn.slices[slice], slice,
                       IF slice = "Work" THEN kn.disable_seqs.mem < InstanceSeq ELSE TRUE,
                       TRUE,
                       slice_needs_mem_prot_propagation(slice),
                       c.memcg_recursive_prot, flt)
    ELSE st

\* A verifier that takes no notice of the gate on the Work slice's memory.
verify_mem_ungated(st, kn, senpai, c, slice, flt) ==
    IF st.ret = "Ok" /\ slice_enforce_mem(c.enforce, slice)
    THEN fix_slice_mem(st, kn.slices[slice], slice,
                       TRUE,
                       IF slice = "Work" THEN ~senpai ELSE TRUE,
                       slice_needs_mem_prot_propagation(slice),
                       c.memcg_recursive_prot, flt)
    ELSE st

\* Lines 610-625.
verify_mem(st, kn, senpai, c, slice, flt) ==
    IF st.ret = "Ok" /\ slice_enforce_mem(c.enforce, slice)
    THEN fix_slice_mem(st, kn.slices[slice], slice,
                       IF slice = "Work" THEN kn.disable_seqs.mem < InstanceSeq ELSE TRUE,
                       IF slice = "Work" THEN ~senpai ELSE TRUE,
                       slice_needs_mem_prot_propagation(slice),
                       c.memcg_recursive_prot, flt)
    ELSE st

\* One iteration of the loop over the slices (lines 595-626).
verify_one_slice(st, kn, senpai, c, slice, flt) ==
    IF cgrp(slice) \notin DOMAIN st.cg THEN st
    ELSE verify_mem(verify_io(verify_cpu(st, kn, c, slice, flt), kn, c, slice, flt),
                    kn, senpai, c, slice, flt)

RECURSIVE verify_loop(_, _, _, _, _, _)
verify_loop(st, kn, senpai, c, i, flt) ==
    IF i > Len(Slices) \/ st.ret = "Err" THEN st
    ELSE verify_loop(verify_one_slice(st, kn, senpai, c, Slices[i], flt),
                     kn, senpai, c, i + 1, flt)

\* Lines 585-591.
verify_overrides(st, kn, c, scs, flt) ==
    IF overrides_disagree(st.cg[CgroupRoot]["cgroup.subtree_control"], kn.disable_seqs, c)
    THEN fix_overrides(Emit(st, <<"fix_overrides">>), kn.disable_seqs, c, scs, flt)
    ELSE st

\* A verifier that runs the toggler after the slices.
verify_and_fix_slices_late(st, kn, senpai, c, scs, flt) ==
    IF flt = <<"cgread", CgroupRoot, "cgroup.subtree_control">>
    THEN Fail(st, <<"cg_read_failed", CgroupRoot, "cgroup.subtree_control">>)
    ELSE IF verify_loop(st, kn, senpai, c, 1, flt).ret = "Err"
    THEN verify_loop(st, kn, senpai, c, 1, flt)
    ELSE verify_overrides(verify_loop(st, kn, senpai, c, 1, flt), kn, c, scs, flt)

\* Lines 581-632.
verify_and_fix_slices(st, kn, senpai, c, scs, flt) ==
    IF flt = <<"cgread", CgroupRoot, "cgroup.subtree_control">>
    THEN Fail(st, <<"cg_read_failed", CgroupRoot, "cgroup.subtree_control">>)
    ELSE verify_loop(verify_overrides(st, kn, c, scs, flt), kn, senpai, c, 1, flt)

(***************************************************************************)
(* The environment: the unit manager realizing its view in cgroupfs.       *)
(***************************************************************************)
\* The value of directive `key` in a drop-in body, None when it has no such line.
RECURSIVE directive(_, _, _)
directive(lines, key, i) ==
    IF i > Len(lines) THEN None
    ELSE IF Len(lines[i]) > Len(key) /\ SubSeq(lines[i], 1, Len(key) + 1) = key \o "="
    THEN Some(SubSeq(lines[i], Len(key) + 2, Len(lines[i])))
    ELSE directive(lines, key, i + 1)

DirectiveOf ==
    [f \in AttrFiles |->
        CASE f = "cpu.weight" -> "CPUWeight"
          [] f = "io.weight" -> "IOWeight"
          [] f = "memory.min" -> "MemoryMin"
          [] f = "memory.low" -> "MemoryLow"
          [] f = "memory.high" -> "MemoryHigh"
          [] f = "memory.max" -> "MemoryMax"]

override_of(resctl, f) ==
    CASE f = "cpu.weight" -> resctl.cpu_weight
      [] f = "io.weight" -> resctl.io_weight
      [] f = "memory.min" -> resctl.mem_min
      [] f = "memory.low" -> resctl.mem_low
      [] f = "memory.high" -> resctl.mem_high
      [] f = "memory.max" -> resctl.mem_max

\* A unit-manager value in the kernel's dialect.
to_cgroupfs(f, v) ==
    IF v = "infinity" THEN "max"
    ELSE IF f = "io.weight" THEN "default " \o v
    ELSE v

\* What the unit manager puts in an attribute file of a unit: its override
\* when it has one, else the directive of the loaded drop-in, else the
\* kernel's default.
realized(resctl, lines, f) ==
    IF IsSome(override_of(resctl, f))
    THEN to_cgroupfs(f, u64_to_systemd_string(Unwrap(override_of(resctl, f))))
    ELSE IF IsSome(directive(lines, DirectiveOf[f], 1))
    THEN to_cgroupfs(f, Unwrap(directive(lines, DirectiveOf[f], 1)))
    ELSE NewCgroup[f]

SliceOfCgroup ==
    [p \in CgroupSet |-> {slice \in SliceSet : cgrp(slice) = p}]

loaded_lines(l, p) ==
    IF SliceOfCgroup[p] # {} /\ Unwrap(SliceOfCgroup[p]) \in DOMAIN l
    THEN l[Unwrap(SliceOfCgroup[p])] ELSE <<>>

realize(l, u, c) ==
    [p \in DOMAIN c |->
        IF FileNameOf[p] \in DOMAIN u /\ u[FileNameOf[p]].cgroup = TrimmedOf[p]
        THEN [f \in DOMAIN c[p] |->
                 IF f \in AttrFiles
                 THEN realized(u[FileNameOf[p]].resctl, loaded_lines(l, p), f)
                 ELSE c[p][f]]
        ELSE c[p]]

(***************************************************************************)
(* The initial states and the operations on the slices.                    *)
(***************************************************************************)
\* How many external changes of cgroupfs a behaviour may contain.
MaxDrift == 1

\* The knobs of the six slices; Work's mem_min is an input.
SliceKnobTable(work_mem_min) ==
    [s \in SliceSet |->
        CASE s = "Host" ->
               [cpu_weight |-> 10, io_weight |-> 50, mem_min |-> Bytes(1),
                mem_low |-> Bytes(2), mem_high |-> KMax]
          [] s = "Init" ->
               [cpu_weight |-> 10, io_weight |-> 50, mem_min |-> Bytes(1),
                mem_low |-> KNone, mem_high |-> KNone]
          [] s = "System" ->
               [cpu_weight |-> 10, io_weight |-> 50, mem_min |-> KNone,
                mem_low |-> Bytes(2), mem_high |-> KMax]
          [] s = "User" ->
               [cpu_weight |-> 10, io_weight |-> 50, mem_min |-> KNone,
                mem_low |-> Percent(25), mem_high |-> KMax]
          [] s = "Work" ->
               [cpu_weight |-> 100, io_weight |-> 500, mem_min |-> work_mem_min,
                mem_low |-> Bytes(20), mem_high |-> KMax]
          [] s = "Side" ->
               [cpu_weight |-> 1, io_weight |-> 1, mem_min |-> KNone,
                mem_low |-> KNone, mem_high |-> Bytes(8)]]

\* At the start the sideload slice is inactive and has no cgroup.
InitCgroups == {CgroupRoot} \cup {cgrp(s) : s \in SliceSet \ {"Side"}} \cup Descendants

InitCg ==
    [p \in InitCgroups |->
        [NewCgroup EXCEPT !["cgroup.subtree_control"] =
            IF p = CgroupRoot THEN "cpuset cpu io memory pids"
            ELSE IF p = cgrp("System") THEN "cpu io memory"
            ELSE IF p = cgrp("System") \o "/sub.slice" THEN "cpu"
            ELSE ""]]

\* Every unit active in its own cgroup with no override, or two of the
\* descendants not, a mem_high override on the Work and User slices and
\* overrides of every kind on a scope below the System slice.
InitUnits(odd) ==
    [u \in {name(s) : s \in SliceSet} \cup {FileNameOf[p] : p \in Descendants} |->
        [cgroup |-> IF odd /\ u = "sub.slice" THEN "/elsewhere.slice/sub.slice"
                    ELSE IF \E p \in Descendants : FileNameOf[p] = u
                    THEN TrimmedOf[CHOOSE p \in Descendants : FileNameOf[p] = u]
                    ELSE "/" \o u,
         state |-> IF odd /\ u = "sshd.service" THEN "Dead"
                   ELSE IF u = "b.scope" THEN "OtherActive" ELSE "Running",
         resctl |-> IF odd /\ u \in {name("Work"), name("User")}
                    THEN [UnitResCtlDefault EXCEPT !.mem_high = Some(5)]
                    ELSE IF odd /\ u = "b.scope"
                    THEN [cpu_weight |-> Some(50), io_weight |-> Some(50), mem_min |-> Some(1),
                          mem_low |-> None, mem_high |-> Some(5), mem_max |-> Some(6)]
                    ELSE UnitResCtlDefault]]

Flags == [cpu : BOOLEAN, io : BOOLEAN, mem : BOOLEAN, crit_mem_prot : BOOLEAN]
AllOn == [cpu |-> TRUE, io |-> TRUE, mem |-> TRUE, crit_mem_prot |-> TRUE]
DisableSeqs ==
    [cpu : {InstanceSeq - 1, InstanceSeq}, io : {InstanceSeq - 1, InstanceSeq},
     mem : {InstanceSeq - 1, InstanceSeq}]
NoneDisabled == [cpu |-> InstanceSeq - 1, io |-> InstanceSeq - 1, mem |-> InstanceSeq - 1]
AllDisabled == [cpu |-> InstanceSeq, io |-> InstanceSeq, mem |-> InstanceSeq]

\* The operations of the environment that can fail.
Faults ==
    {<<"read", "User">>, <<"write", "User">>, <<"remove", "User">>,
     <<"lookup", name("Side")>>, <<"start", name("Side")>>, <<"stop", name("Side")>>,
     <<"lookup", name("System")>>, <<"apply", name("System")>>,
     <<"apply", "sshd.service">>, <<"daemon_reload">>, <<"iocost">>,
     <<"cgread", cgrp("Work"), "memory.low">>, <<"cgwrite", cgrp("Work"), "memory.low">>,
     <<"cgread", cgrp("Work"), "memory.max">>,
     <<"cgwrite", cgrp("Host"), "cpu.weight">>,
     <<"cgwrite", cgrp("System") \o "/sshd.service", "memory.low">>,
     <<"scwrite", cgrp("System")>>, <<"scwrite", CgroupRoot>>}

\* The inputs: every enforce flag with every gate; the other knobs of the
\* passes; every fault; external changes; units that are not where or what
\* the cascade expects.
Plain(kn, hms, c) ==
    /\ cfg = c /\ knobs = kn /\ hashd_mem_size = hms
    /\ workload_senpai = FALSE /\ broken = NoFault /\ drift_left = 0
    /\ units = InitUnits(FALSE)

InitGates ==
    \E e \in Flags, d \in DisableSeqs :
        Plain([slices |-> SliceKnobTable(KNone), disable_seqs |-> d,
               work_mem_low_none |-> FALSE],
              8, [enforce |-> e, memcg_recursive_prot |-> FALSE])

InitKnobs ==
    /\ cfg \in [enforce : {AllOn, [AllOn EXCEPT !.mem = FALSE]},
                memcg_recursive_prot : BOOLEAN]
    /\ knobs \in [slices : {SliceKnobTable(KNone), SliceKnobTable(Bytes(2))},
                  disable_seqs : {NoneDisabled, [NoneDisabled EXCEPT !.mem = InstanceSeq]},
                  work_mem_low_none : BOOLEAN]
    /\ hashd_mem_size \in IF knobs.work_mem_low_none THEN {8, 27} ELSE {8}
    /\ workload_senpai \in BOOLEAN
    /\ broken = NoFault /\ drift_left = 0
    /\ units = InitUnits(FALSE)

InitFaults ==
    /\ cfg = [enforce |-> AllOn, memcg_recursive_prot |-> FALSE]
    /\ knobs \in [slices : {SliceKnobTable(KNone)}, disable_seqs : {NoneDisabled, AllDisabled},
                  work_mem_low_none : {FALSE}]
    /\ hashd_mem_size = 8 /\ workload_senpai = FALSE
    /\ broken \in Faults /\ drift_left = 0
    /\ units = InitUnits(FALSE)

InitDrift ==
    /\ cfg = [enforce |-> AllOn, memcg_recursive_prot |-> FALSE]
    /\ knobs \in [slices : {SliceKnobTable(KNone)}, disable_seqs : {NoneDisabled, AllDisabled},
                  work_mem_low_none : {FALSE}]
    /\ hashd_mem_size = 8 /\ workload_senpai = FALSE
    /\ broken = NoFault /\ drift_left = MaxDrift
    /\ units = InitUnits(FALSE)

InitOddUnits ==
    /\ cfg \in [enforce : {AllOn}, memcg_recursive_prot : BOOLEAN]
    /\ knobs = [slices |-> SliceKnobTable(KNone), disable_seqs |-> NoneDisabled,
                work_mem_low_none |-> FALSE]
    /\ hashd_mem_size = 8 /\ workload_senpai \in BOOLEAN
    /\ broken \in {NoFault, <<"cgread", cgrp("Work"), "memory.high">>}
    /\ drift_left = 0
    /\ units = InitUnits(TRUE)

\* The drop-ins an earlier run of the agent has left behind: it enforced
\* everything, and this run enforces nothing or the protection of the
\* critical slices only.
Leftover ==
    [slice \in SliceSet |->
        slice_configlet([slices |-> SliceKnobTable(KNone), disable_seqs |-> NoneDisabled,
                         work_mem_low_none |-> FALSE],
                        [enforce |-> AllOn, memcg_recursive_prot |-> FALSE], slice)]

InitLeftover ==
    /\ cfg \in [enforce : {[AllOn EXCEPT !.cpu = FALSE, !.io = FALSE, !.mem = FALSE],
                           [cpu |-> FALSE, io |-> FALSE, mem |-> FALSE, crit_mem_prot |-> FALSE]},
                memcg_recursive_prot : {FALSE}]
    /\ knobs = [slices |-> SliceKnobTable(KNone), disable_seqs |-> NoneDisabled,
                work_mem_low_none |-> FALSE]
    /\ hashd_mem_size = 8 /\ workload_senpai = FALSE
    /\ broken \in {NoFault, <<"read", "User">>, <<"remove", "User">>,
                   <<"lookup", name("Side")>>}
    /\ drift_left = 0
    /\ units = InitUnits(FALSE)
    /\ dropin = Leftover
    /\ loaded = Leftover
    /\ cg = realize(Leftover, InitUnits(FALSE), InitCg)

SlicesInit ==
    /\ \/ /\ InitGates \/ InitKnobs \/ InitFaults \/ InitDrift \/ InitOddUnits
          /\ dropin = <<>>
          /\ loaded = <<>>
          /\ cg = InitCg
       \/ InitLeftover
    /\ last = [op |-> "init", prev |-> "none", ret |-> "Ok", ev |-> <<>>]

\* The state after a pass, and the record of the pass.
Commit(op, st) ==
    /\ dropin' = st.dropin
    /\ loaded' = st.loaded
    /\ units' = st.units
    /\ cg' = st.cg
    /\ last' = [op |-> op, prev |-> last.op, ret |-> st.ret, ev |-> st.ev]

\* apply_slices(&mut knobs, hashd_mem_size, &cfg)
Apply ==
    /\ knobs' = apply_knobs(knobs, hashd_mem_size)
    /\ Commit("apply", apply_slices(PassStart(dropin, loaded, units, cg),
                                    apply_knobs(knobs, hashd_mem_size), cfg, broken))
    /\ UNCHANGED <<cfg, hashd_mem_size, workload_senpai, broken, drift_left>>
    /\ UNCHANGED run_vars

\* clear_slices(&cfg.enforce)
Clear ==
    /\ Commit("clear", clear_slices(PassStart(dropin, loaded, units, cg), cfg.enforce, broken))
    /\ UNCHANGED <<cfg, knobs, hashd_mem_size, workload_senpai, broken, drift_left>>
    /\ UNCHANGED run_vars

\* The orders in which fix_overrides may come to write the disable string
\* (lines 401-407); the list is not built when nothing is to be disabled.
verify_scs ==
    IF Len(disable_string(knobs.disable_seqs, cfg)) > 0
       /\ overrides_disagree(cg[CgroupRoot]["cgroup.subtree_control"], knobs.disable_seqs, cfg)
    THEN sort_unstable_by_len(DOMAIN cg)
    ELSE {<<>>}

\* verify_and_fix_slices(&knobs, workload_senpai, &cfg)
Verify ==
    /\ \E scs \in verify_scs :
           Commit("verify", verify_and_fix_slices(PassStart(dropin, loaded, units, cg), knobs,
                                                  workload_senpai, cfg, scs, broken))
    /\ UNCHANGED <<cfg, knobs, hashd_mem_size, workload_senpai, broken, drift_left>>
    /\ UNCHANGED run_vars

\* The unit manager brings cgroupfs in line with its view of the units.
Realize ==
    /\ cg' = realize(loaded, units, cg)
    /\ last' = [op |-> "realize", prev |-> last.op, ret |-> "Ok", ev |-> <<>>]
    /\ UNCHANGED <<cfg, knobs, hashd_mem_size, workload_senpai, broken, drift_left,
                   dropin, loaded, units>>
    /\ UNCHANGED run_vars

\* Changes of cgroupfs made behind the agent's back.
Drifts ==
    {<<cgrp("Work"), "cpu.weight", "50">>,
     <<cgrp("Work"), "io.weight", "default 50">>,
     <<cgrp("Work"), "memory.low", "21">>,
     <<cgrp("Work"), "memory.low", "22">>,
     <<cgrp("Work"), "memory.low", "18">>,
     <<cgrp("Host"), "memory.min", "max">>,
     <<cgrp("Init"), "memory.max", "30">>,
     <<cgrp("User"), "memory.high", "">>,
     <<cgrp("System") \o "/sshd.service", "memory.low", "5">>,
     <<CgroupRoot, "cgroup.subtree_control", "cpuset memory">>,
     <<CgroupRoot, "cgroup.subtree_control", "cpuset io memory">>,
     <<CgroupRoot, "cgroup.subtree_control", "io">>}

Drift ==
    /\ drift_left > 0
    /\ \E d \in Drifts :
           /\ d[1] \in DOMAIN cg
           /\ cg' = [cg EXCEPT ![d[1]][d[2]] = d[3]]
           /\ last' = [op |-> "drift", prev |-> last.op, ret |-> "Ok", ev |-> <<d>>]
    /\ drift_left' = drift_left - 1
    /\ UNCHANGED <<cfg, knobs, hashd_mem_size, workload_senpai, broken, dropin, loaded, units>>
    /\ UNCHANGED run_vars

(***************************************************************************)
(* The run context of the benchmark driver (run.rs): the thread that calls *)
(* it, the minder threads it spawns, and the agent they mind.  Time is     *)
(* counted in seconds and kept relative to the present; a step of a thread *)
(* takes no time, and time passes only when no thread has a step to take.  *)
(***************************************************************************)
MINDER_AGENT_TIMEOUT == 30
CMD_TIMEOUT == 10
StartTimeout == 30
NrTries == 3
LongTimeout == 60
MaxMinders == 2
MaxEnv == 1
MaxOps == 3
KillMargin == 2

\* Ages stop counting above every timeout they are compared with.
AgeCap == StartTimeout + 2
older(age) == Min(age + 1, AgeCap)

Ok == <<"Ok">>
AgentTimeout == <<"AgentTimeout">>
AgentNotRunning(state) == <<"AgentNotRunning", state>>
ReportTimeout == <<"ReportTimeout">>

Tids == 1..MaxMinders
\* A minder thread: where it is, its locals (last_status_at and last_report_at
\* as ages, the rest of its sleep, nr_tries), and two records kept for the
\* properties: the age of its last refresh that succeeded, and the unit
\* states it has read so far in the tick it is in.
Unborn ==
    [pc |-> "unborn", status_age |-> 0, report_age |-> 0, sleep_left |-> 0, nr_tries |-> 0,
     ok_age |-> 0, seen |-> <<>>]
Done == [Unborn EXCEPT !.pc = "done"]
\* The agent's files before an agent has written them: the state and the
\* age of the report, and the hashd_seq of the bench file.
NoReport == [age |-> AgeCap, state |-> "Idle", hashd_seq |-> 0]
Idle ==
    [pc |-> "idle", op |-> "none", cond |-> "never", timeout |-> 0, left |-> 0,
     woken |-> FALSE, jh |-> None, result |-> <<"none">>, obs |-> <<>>, at_call |-> Ok,
     killed |-> None, did |-> {}, seq |-> 0]

\* prog_kick(): every thread blocked in wait_prog_state wakes, and the kick
\* stays pending for the next thread that comes to wait.
prog_kick(pr) == IF pr.state = "Exiting" THEN pr ELSE [pr EXCEPT !.kicked = TRUE]
kick_main(m) == IF m.pc = "blocked" THEN [m EXCEPT !.woken = TRUE] ELSE m

RunInit ==
    /\ agent_svc = None
    /\ minder_state = Ok
    /\ minder_jh = None
    /\ agent_files = NoReport
    /\ mutex = None
    /\ prog = [state |-> "Running", kicked |-> FALSE]
    /\ minders = [t \in Tids |-> Unborn]
    /\ main = Idle
    /\ agent \in [unit : {"none"}, reporting : {FALSE},
                  report : {NoReport, [NoReport EXCEPT !.state = "Running"]},
                  runner : {"Running"}, cmd : {0}]
    /\ refresh_ok = TRUE
    /\ budget = [env |-> MaxEnv, ops |-> MaxOps]

\* A minder that takes the exit of the program for a failure of the agent.
MinderExiting_marks(t) ==
    /\ minders[t].pc = "sleep"
    /\ prog.state = "Exiting"
    /\ minders' = [minders EXCEPT ![t].pc = "exit"]
    /\ minder_state' = AgentTimeout
    /\ UNCHANGED <<agent_svc, minder_jh, agent_files, mutex, prog, main,
                   agent, refresh_ok, budget>>
    /\ UNCHANGED slice_vars

\* minder, lines 167-176: the sleep ends early when the program is exiting.
MinderExiting(t) ==
    /\ minders[t].pc = "sleep"
    /\ prog.state = "Exiting"
    /\ minders' = [minders EXCEPT ![t].pc = "exit"]
    /\ UNCHANGED <<agent_svc, minder_state, minder_jh, agent_files, mutex, prog, main,
                   agent, refresh_ok, budget>>
    /\ UNCHANGED slice_vars

\* minder, lines 167-176: a kick ends one wait of the sleep, which goes on.
MinderKicked(t) ==
    /\ minders[t].pc = "sleep"
    /\ prog.state # "Exiting"
    /\ prog.kicked
    /\ prog' = [prog EXCEPT !.kicked = FALSE]
    /\ UNCHANGED <<agent_svc, minder_state, minder_jh, agent_files, mutex, minders, main,
                   agent, refresh_ok, budget>>
    /\ UNCHANGED slice_vars

\* minder, lines 177-189: the tick takes the lock and looks for the service.
MinderTick(t) ==
    /\ minders[t].pc = "sleep"
    /\ minders[t].sleep_left = 0
    /\ mutex = None
    /\ IF agent_svc = None
       THEN /\ minders' = [minders EXCEPT ![t].pc = "exit", ![t].sleep_left = 1]
            /\ UNCHANGED mutex
       ELSE /\ minders' = [minders EXCEPT ![t].pc = "status", ![t].sleep_left = 1,
                                          ![t].nr_tries = NrTries]
            /\ mutex' = Some(t)
    /\ UNCHANGED <<agent_svc, minder_state, minder_jh, agent_files, prog, main,
                   agent, refresh_ok, budget>>
    /\ UNCHANGED slice_vars

\* The minder leaves the tick with a verdict: it sets minder_state, drops
\* the lock and goes to its exit path.
minder_fails(t, state) ==
    /\ minder_state' = state
    /\ minders' = [minders EXCEPT ![t].pc = "exit", ![t].status_age = 0, ![t].seen = <<>>,
                       ![t].ok_age = IF refresh_ok THEN 0 ELSE @]
    /\ mutex' = None

minder_report_forgiving(t, svc_state) ==
    /\ agent_svc' = Some(svc_state)
    /\ agent_files' = agent.report
    /\ prog' = prog_kick(prog)
    /\ main' = kick_main(main)
    /\ mutex' = None
    /\ minder_state' = Ok
    /\ minders' = [minders EXCEPT ![t].pc = "sleep", ![t].status_age = 0, ![t].seen = <<>>,
                       ![t].ok_age = IF refresh_ok THEN 0 ELSE @,
                       ![t].report_age = Min(minders[t].report_age, agent.report.age)]

\* A minder that never takes up the timestamp of the report.
minder_report_stale(t, svc_state) ==
    /\ agent_svc' = Some(svc_state)
    /\ agent_files' = agent.report
    /\ prog' = prog_kick(prog)
    /\ main' = kick_main(main)
    /\ mutex' = None
    /\ IF minders[t].report_age > MINDER_AGENT_TIMEOUT
       THEN /\ minder_state' = ReportTimeout
            /\ minders' = [minders EXCEPT ![t].pc = "exit", ![t].status_age = 0, ![t].seen = <<>>,
                       ![t].ok_age = IF refresh_ok THEN 0 ELSE @]
       ELSE /\ minders' = [minders EXCEPT ![t].pc = "sleep", ![t].status_age = 0, ![t].seen = <<>>,
                       ![t].ok_age = IF refresh_ok THEN 0 ELSE @]
            /\ UNCHANGED minder_state

\* minder, lines 225-243: the report is refreshed, the waiters are kicked, and
\* the report's age is held against the timeout.
minder_report(t, svc_state) ==
    /\ agent_svc' = Some(svc_state)
    /\ agent_files' = agent.report
    /\ prog' = prog_kick(prog)
    /\ main' = kick_main(main)
    /\ mutex' = None
    /\ IF Min(minders[t].report_age, agent.report.age) > MINDER_AGENT_TIMEOUT
       THEN /\ minder_state' = ReportTimeout
            /\ minders' = [minders EXCEPT ![t].pc = "exit", ![t].status_age = 0, ![t].seen = <<>>,
                       ![t].ok_age = IF refresh_ok THEN 0 ELSE @]
       ELSE /\ minders' = [minders EXCEPT ![t].pc = "sleep", ![t].status_age = 0, ![t].seen = <<>>,
                       ![t].ok_age = IF refresh_ok THEN 0 ELSE @,
                               ![t].report_age = Min(minders[t].report_age, agent.report.age)]
            /\ UNCHANGED minder_state

minder_status_unchecked(t, svc_state) == minder_report(t, svc_state)

\* A minder that gives up at the first state other than Running.
minder_status_hasty(t, svc_state) ==
    IF svc_state # "Running"
    THEN /\ agent_svc' = Some(svc_state)
         /\ minder_fails(t, AgentNotRunning(svc_state))
         /\ UNCHANGED <<agent_files, prog, main>>
    ELSE minder_report(t, svc_state)

\* minder, lines 205-223: the state of the unit as the refresh left it.
minder_status(t, svc_state) ==
    IF svc_state # "Running"
    THEN IF minders[t].nr_tries > 0
         THEN /\ agent_svc' = Some(svc_state)
              /\ minders' = [minders EXCEPT ![t].nr_tries = @ - 1, ![t].status_age = 0,
                                 ![t].seen = Append(@, svc_state),
                                 ![t].ok_age = IF refresh_ok THEN 0 ELSE @]
              /\ UNCHANGED <<minder_state, agent_files, mutex, prog, main>>
         ELSE /\ agent_svc' = Some(svc_state)
              /\ minder_fails(t, AgentNotRunning(svc_state))
              /\ UNCHANGED <<agent_files, prog, main>>
    ELSE minder_report(t, svc_state)

\* minder, lines 190-243: one turn of the status loop, under the lock.
MinderStatus(t) ==
    /\ minders[t].pc = "status"
    /\ IF ~refresh_ok /\ minders[t].status_age > MINDER_AGENT_TIMEOUT
       THEN /\ minder_fails(t, AgentTimeout)
            /\ UNCHANGED <<agent_svc, agent_files, prog, main>>
       ELSE minder_status(t, IF refresh_ok THEN agent.unit ELSE Unwrap(agent_svc))
    /\ UNCHANGED <<minder_jh, agent, refresh_ok, budget>>
    /\ UNCHANGED slice_vars

\* A minder that ends without its last kick.
MinderExit_silent(t) ==
    /\ minders[t].pc = "exit"
    /\ mutex = None
    /\ agent_files' = agent.report
    /\ minders' = [minders EXCEPT ![t] = Done]
    /\ UNCHANGED <<agent_svc, minder_state, minder_jh, mutex, prog, main, agent, refresh_ok,
                   budget>>
    /\ UNCHANGED slice_vars

\* minder, lines 246-247: every way out refreshes the report and kicks.
MinderExit(t) ==
    /\ minders[t].pc = "exit"
    /\ mutex = None
    /\ agent_files' = agent.report
    /\ prog' = prog_kick(prog)
    /\ main' = kick_main(main)
    /\ minders' = [minders EXCEPT ![t] = Done]
    /\ UNCHANGED <<agent_svc, minder_state, minder_jh, mutex, agent, refresh_ok, budget>>
    /\ UNCHANGED slice_vars

\* The predicates the waits are given: one that never holds, one that always
\* holds, the one of start_agent_fallible (lines 263-266), one on the
\* state the agent reports, and the one of start_hashd_bench (lines 371-374).
Conds == {"never", "always", "running"}
Timeouts == {0, CMD_TIMEOUT, LongTimeout}

\* A start that takes any report in state Running, however old.
cond_any_report(m, af) ==
    CASE m.cond = "always" -> TRUE
      [] m.cond = "never" -> FALSE
      [] m.cond = "ready" -> af.state = "Running"
      [] m.cond = "running" -> af.state = "Running"
      [] m.cond = "bench" -> af.state = "BenchHashd" \/ af.hashd_seq >= m.seq

cond(m, af) ==
    CASE m.cond = "always" -> TRUE
      [] m.cond = "never" -> FALSE
      [] m.cond = "ready" -> af.age <= m.timeout - m.left /\ af.state = "Running"
      [] m.cond = "running" -> af.state = "Running"
      [] m.cond = "bench" -> af.state = "BenchHashd" \/ af.hashd_seq >= m.seq

\* What the wait saw when it returned.
observed(m) ==
    [cond |-> cond(m, agent_files), minder_state |-> minder_state, expired |-> m.left < 0,
     prog |-> prog.state]

\* A start_hashd_bench whose wait hands its error back to the caller.
wait_returns_no_panic(m, r) ==
    [m EXCEPT !.pc = IF m.op = "start" /\ r # <<"Ok">> THEN "stop_take" ELSE "idle",
              !.woken = FALSE, !.left = 0, !.result = r, !.obs = observed(m)]

\* A start_agent_fallible that returns the error of its wait and leaves the
\* agent as it is.
wait_returns_unstopped(m, r) ==
    [m EXCEPT !.pc = "idle", !.woken = FALSE, !.left = 0, !.result = r, !.obs = observed(m)]

\* wait_cond_fallible returns r; start_agent_fallible answers an error with
\* stop_agent (lines 262-272), and the wait_cond of start_hashd_bench with
\* a panic (lines 337-345).
wait_returns(m, r) ==
    [m EXCEPT !.pc = IF r = <<"Ok">> THEN "idle"
                     ELSE IF m.op = "start" THEN "stop_take"
                     ELSE IF m.op = "bench" THEN "panicked"
                     ELSE "idle",
              !.woken = FALSE, !.left = 0, !.result = r, !.obs = observed(m)]

\* wait_cond_fallible, lines 317-330: one turn of the loop, up to the wait:
\* the check under the lock, and the expiry once the lock is dropped.
wait_check_swapped(m) ==
    IF minder_state # Ok THEN wait_returns(m, <<"Err", "agent error", minder_state>>)
    ELSE IF cond(m, agent_files) THEN wait_returns(m, <<"Ok">>)
    ELSE IF m.left < 0 THEN wait_returns(m, <<"Err", "timeout">>)
    ELSE [m EXCEPT !.pc = "wait"]

wait_check_unminded(m) ==
    IF cond(m, agent_files) THEN wait_returns(m, <<"Ok">>)
    ELSE IF m.left < 0 THEN wait_returns(m, <<"Err", "timeout">>)
    ELSE [m EXCEPT !.pc = "wait"]

wait_check(m) ==
    IF cond(m, agent_files) THEN wait_returns(m, <<"Ok">>)
    ELSE IF minder_state # Ok THEN wait_returns(m, <<"Err", "agent error", minder_state>>)
    ELSE IF m.left < 0 THEN wait_returns(m, <<"Err", "timeout">>)
    ELSE [m EXCEPT !.pc = "wait"]

WaitCheck ==
    /\ main.pc = "check"
    /\ mutex = None
    /\ main' = wait_check(main)
    /\ UNCHANGED <<agent_svc, minder_state, minder_jh, agent_files, mutex, prog, minders,
                   agent, refresh_ok, budget>>
    /\ UNCHANGED slice_vars

\* wait_prog_state(dur) as the caller enters it, the lock dropped: it returns
\* at once when the program is exiting or a kick is pending, and blocks
\* otherwise.
wait_prog_state(m) ==
    IF prog.state = "Exiting" THEN wait_returns(m, <<"Err", "exiting">>)
    ELSE IF prog.kicked THEN [m EXCEPT !.pc = "check"]
    ELSE [m EXCEPT !.pc = "blocked", !.woken = FALSE]

\* wait_cond_fallible, lines 331-333: the call of wait_prog_state.
WaitEnter ==
    /\ main.pc = "wait"
    /\ main' = wait_prog_state(main)
    /\ prog' = IF main'.pc = "check" THEN [prog EXCEPT !.kicked = FALSE] ELSE prog
    /\ UNCHANGED <<agent_svc, minder_state, minder_jh, agent_files, mutex, minders,
                   agent, refresh_ok, budget>>
    /\ UNCHANGED slice_vars

\* wait_cond_fallible, lines 331-333: the wait ends on a kick, on the expiry
\* or on the program exiting.
WaitWake ==
    /\ main.pc = "blocked"
    /\ prog.state = "Exiting" \/ main.woken \/ main.left < 0
    /\ main' = IF prog.state = "Exiting"
               THEN wait_returns(main, <<"Err", "exiting">>)
               ELSE [main EXCEPT !.pc = "check", !.woken = FALSE]
    /\ prog' = [prog EXCEPT !.kicked = FALSE]
    /\ UNCHANGED <<agent_svc, minder_state, minder_jh, agent_files, mutex, minders,
                   agent, refresh_ok, budget>>
    /\ UNCHANGED slice_vars

\* A call begins: its record starts from nothing.
calls(op, c, timeout) ==
    [Idle EXCEPT !.pc = IF op = "stop" THEN "stop_take" ELSE "check", !.op = op,
                 !.cond = c, !.timeout = timeout, !.left = timeout, !.at_call = minder_state]

\* wait_cond_fallible(cond, Some(timeout), None), lines 307-315
Wait ==
    /\ main.pc = "idle"
    /\ budget.ops > 0
    /\ \E c \in Conds, timeout \in Timeouts : main' = calls("wait", c, timeout)
    /\ budget' = [budget EXCEPT !.ops = @ - 1]
    /\ UNCHANGED <<agent_svc, minder_state, minder_jh, agent_files, mutex, prog, minders,
                   agent, refresh_ok>>
    /\ UNCHANGED slice_vars

\* A start that spawns no thread.
spawn_none(ms, sleep_left) == ms

\* The thread spawn() starts, and how soon the second it starts in ends.
spawn(ms, sleep_left) ==
    [ms EXCEPT ![CHOOSE t \in Tids : ms[t].pc = "unborn"] =
                   [Unborn EXCEPT !.pc = "sleep", !.sleep_left = sleep_left]]

\* A start that goes ahead whether or not a service is held.
start_agent_bails_never(svc) == FALSE

\* start_agent, lines 82-84.
start_agent_bails(svc) == svc # None

\* start_agent_fallible, lines 250-267, with start_agent, lines 81-108: the
\* service may fail to start, and the agent may die as soon as it started.
\* The record of the caller notes what start_agent ran, prep_testfiles set:
\* the preparation of the test files and the start of the transient service.
StartAgent ==
    /\ main.pc = "idle"
    /\ budget.ops > 0
    /\ mutex = None
    /\ \E t \in Tids : minders[t].pc = "unborn"
    /\ budget' = [budget EXCEPT !.ops = @ - 1]
    /\ \/ /\ start_agent_bails(agent_svc)
          /\ main' = [calls("start", "ready", StartTimeout) EXCEPT
                          !.pc = "idle", !.result = <<"Err", "already running">>]
          /\ UNCHANGED <<agent_svc, minder_jh, minders, agent>>
       \/ /\ ~start_agent_bails(agent_svc)
          /\ \E did \in {{"prepare"}, {"prepare", "svc_start"}} :
                 main' = [calls("start", "ready", StartTimeout) EXCEPT
                              !.pc = "idle", !.result = <<"Err", "start failed">>,
                              !.did = did]
          /\ UNCHANGED <<agent_svc, minder_jh, minders, agent>>
       \/ /\ ~start_agent_bails(agent_svc)
          /\ \E up \in {"Running", "Failed"}, sleep_left \in {0, 1} :
                 /\ agent_svc' = Some("Running")
                 /\ agent' = [agent EXCEPT !.unit = up, !.reporting = TRUE,
                                           !.runner = "Running"]
                 /\ minders' = spawn(minders, sleep_left)
                 /\ minder_jh' = Some(CHOOSE t \in Tids : minders[t].pc = "unborn")
          /\ main' = [calls("start", "ready", StartTimeout) EXCEPT
                          !.did = {"prepare", "svc_start"}]
    /\ UNCHANGED <<minder_state, agent_files, mutex, prog, refresh_ok>>
    /\ UNCHANGED slice_vars

\* stop_agent()
StopAgent ==
    /\ main.pc = "idle"
    /\ budget.ops > 0
    /\ main' = calls("stop", "never", 0)
    /\ budget' = [budget EXCEPT !.ops = @ - 1]
    /\ UNCHANGED <<agent_svc, minder_state, minder_jh, agent_files, mutex, prog, minders,
                   agent, refresh_ok>>
    /\ UNCHANGED slice_vars

\* A stop_agent that leaves the service where it is.
StopTake_left ==
    /\ main.pc = "stop_take"
    /\ mutex = None
    /\ prog' = prog_kick(prog)
    /\ main' = [main EXCEPT !.pc = "stop_jh"]
    /\ UNCHANGED <<agent_svc, agent, minder_state, minder_jh, agent_files, mutex, minders,
                   refresh_ok, budget>>
    /\ UNCHANGED slice_vars

\* stop_agent, lines 285-290: the service is taken and dropped, which stops
\* its unit, and the waiters are kicked.
StopTake ==
    /\ main.pc = "stop_take"
    /\ mutex = None
    /\ agent_svc' = None
    /\ agent' = IF agent_svc = None THEN agent
                ELSE [agent EXCEPT !.unit = "none", !.reporting = FALSE]
    /\ prog' = prog_kick(prog)
    /\ main' = [main EXCEPT !.pc = "stop_jh"]
    /\ UNCHANGED <<minder_state, minder_jh, agent_files, mutex, minders, refresh_ok, budget>>
    /\ UNCHANGED slice_vars

\* stop_agent, line 292: the join handle is taken.
StopJh ==
    /\ main.pc = "stop_jh"
    /\ mutex = None
    /\ minder_jh' = None
    /\ main' = IF minder_jh = None THEN [main EXCEPT !.pc = "idle"]
               ELSE [main EXCEPT !.pc = "join", !.jh = minder_jh]
    /\ UNCHANGED <<agent_svc, minder_state, agent_files, mutex, prog, minders,
                   agent, refresh_ok, budget>>
    /\ UNCHANGED slice_vars

\* stop_agent, lines 293-295: the join returns when the minder has ended.
StopJoin ==
    /\ main.pc = "join"
    /\ minders[Unwrap(main.jh)].pc = "done"
    /\ minders' = [minders EXCEPT ![Unwrap(main.jh)] = Unborn]
    /\ main' = [main EXCEPT !.pc = "idle", !.jh = None]
    /\ UNCHANGED <<agent_svc, minder_state, minder_jh, agent_files, mutex, prog,
                   agent, refresh_ok, budget>>
    /\ UNCHANGED slice_vars

\* Whether the minder is minding the agent: the service is held and a minder
\* thread has not gone to its exit path.
minding == agent_svc # None /\ \E t \in Tids : minders[t].pc \in {"sleep", "status"}

\* The agent is killed from outside.  The record of the caller notes a kill
\* that falls into a pending wait_cond while the minder is minding and has
\* found nothing wrong: how much of the wait was left, counted up to
\* KillMargin, and the seconds that pass from the kill to the return.
Kill ==
    /\ budget.env > 0
    /\ agent.unit = "Running"
    /\ agent' = [agent EXCEPT !.unit = "Failed", !.reporting = FALSE]
    /\ main' = IF main.op = "wait" /\ main.pc \in {"check", "wait", "blocked"}
                  /\ minder_state = Ok /\ minding
               THEN [main EXCEPT !.killed = Some([left |-> Min(main.left, KillMargin), since |-> 0])]
               ELSE main
    /\ budget' = [budget EXCEPT !.env = @ - 1]
    /\ UNCHANGED <<agent_svc, minder_state, minder_jh, agent_files, mutex, prog, minders,
                   refresh_ok>>
    /\ UNCHANGED slice_vars

\* The unit manager starts the agent's unit again; a kill the caller's record
\* had noted is undone by it.
Restart ==
    /\ budget.env > 0
    /\ agent.unit = "Failed"
    /\ agent' = [agent EXCEPT !.unit = "Running", !.reporting = TRUE, !.runner = "Running"]
    /\ main' = [main EXCEPT !.killed = None]
    /\ budget' = [budget EXCEPT !.env = @ - 1]
    /\ UNCHANGED <<agent_svc, minder_state, minder_jh, agent_files, mutex, prog, minders,
                   refresh_ok>>
    /\ UNCHANGED slice_vars

\* The agent stays alive and stops reporting.
Hang ==
    /\ budget.env > 0
    /\ agent.unit = "Running" /\ agent.reporting
    /\ agent' = [agent EXCEPT !.reporting = FALSE]
    /\ budget' = [budget EXCEPT !.env = @ - 1]
    /\ UNCHANGED <<agent_svc, minder_state, minder_jh, agent_files, mutex, prog, minders,
                   main, refresh_ok>>
    /\ UNCHANGED slice_vars

\* The unit manager stops answering.
BreakRefresh ==
    /\ budget.env > 0
    /\ refresh_ok
    /\ refresh_ok' = FALSE
    /\ budget' = [budget EXCEPT !.env = @ - 1]
    /\ UNCHANGED <<agent_svc, minder_state, minder_jh, agent_files, mutex, prog, minders,
                   main, agent>>
    /\ UNCHANGED slice_vars

\* The program is told to exit: the progress state becomes Exiting.
ExitSignal ==
    /\ budget.env > 0
    /\ prog.state = "Running"
    /\ prog' = [state |-> "Exiting", kicked |-> FALSE]
    /\ budget' = [budget EXCEPT !.env = @ - 1]
    /\ UNCHANGED <<agent_svc, minder_state, minder_jh, agent_files, mutex, minders,
                   main, agent, refresh_ok>>
    /\ UNCHANGED slice_vars

\* The threads that have a step to take now.
minder_due(t) ==
    \/ minders[t].pc \in {"status", "exit"}
    \/ /\ minders[t].pc = "sleep"
       /\ minders[t].sleep_left = 0 \/ prog.state = "Exiting" \/ prog.kicked
main_due ==
    \/ main.pc \in {"check", "wait", "stop_take", "stop_jh"}
    \/ main.pc = "blocked" /\ (prog.state = "Exiting" \/ main.woken \/ main.left < 0)
    \/ main.pc = "join" /\ minders[Unwrap(main.jh)].pc = "done"

waited(m) ==
    [m EXCEPT !.left = @ - 1,
              !.killed = IF @ = None THEN @
                         ELSE Some([Unwrap(@) EXCEPT !.since = Min(@ + 1, KillMargin)])]

aged(m) ==
    IF m.pc # "sleep" THEN m
    ELSE [m EXCEPT !.sleep_left = IF @ > 0 THEN @ - 1 ELSE 0,
                   !.status_age = Min(@ + 1, MINDER_AGENT_TIMEOUT + 1),
                   !.ok_age = Min(@ + 1, MINDER_AGENT_TIMEOUT + 1),
                   !.report_age = Min(@ + 1, MINDER_AGENT_TIMEOUT + 1)]

\* A second passes; an agent that is alive and well writes its report.
Tick ==
    /\ ~main_due
    /\ \A t \in Tids : ~minder_due(t)
    /\ main' = IF main.pc = "blocked" THEN waited(main) ELSE main
    /\ minders' = [t \in Tids |-> aged(minders[t])]
    /\ agent_files' = [agent_files EXCEPT !.age = older(@)]
    /\ agent' = [agent EXCEPT !.report =
                     IF agent.unit = "Running" /\ agent.reporting
                     THEN [@ EXCEPT !.age = 0, !.state = agent.runner]
                     ELSE [@ EXCEPT !.age = older(@)]]
    /\ UNCHANGED <<agent_svc, minder_state, minder_jh, mutex, prog, refresh_ok, budget>>
    /\ UNCHANGED slice_vars

MinderStep(t) ==
    MinderExiting(t) \/ MinderKicked(t) \/ MinderTick(t) \/ MinderStatus(t) \/ MinderExit(t)
MainStep == WaitCheck \/ WaitEnter \/ WaitWake \/ StopTake \/ StopJh \/ StopJoin

RunNext ==
    \/ \E t \in Tids : MinderStep(t)
    \/ MainStep
    \/ Wait \/ StartAgent \/ StopAgent
    \/ Kill \/ Restart \/ Hang \/ BreakRefresh \/ ExitSignal
    \/ Tick

\* The slices at rest while the run context is at work, and the reverse.
SlicesIdle ==
    /\ cfg = [enforce |-> AllOn, memcg_recursive_prot |-> FALSE]
    /\ knobs = [slices |-> SliceKnobTable(KNone), disable_seqs |-> NoneDisabled,
                work_mem_low_none |-> FALSE]
    /\ hashd_mem_size = 8 /\ workload_senpai = FALSE
    /\ broken = NoFault /\ drift_left = 0
    /\ units = InitUnits(FALSE)
    /\ dropin = <<>>
    /\ loaded = <<>>
    /\ cg = InitCg
    /\ last = [op |-> "init", prev |-> "none", ret |-> "Ok", ev |-> <<>>]
RunIdle == RunInit /\ agent.report = NoReport

SlicesNext == Apply \/ Clear \/ Verify \/ Realize \/ Drift

\* The agent's slices at work, no benchmark run in progress.
Init == SlicesInit /\ RunIdle

Spec == Init /\ [][SlicesNext]_vars

\* A benchmark run over slices that are left alone.
InitRun == SlicesIdle /\ RunInit

RunSpec == InitRun /\ [][RunNext]_vars

\* start_hashd_bench, lines 356-378: under the lock the command is built
\* from the cached bench file and saved, and the wait for the agent to take
\* it up begins.
StartHashdBench ==
    /\ main.pc = "idle"
    /\ budget.ops > 0
    /\ mutex = None
    /\ LET next_seq == agent_files.hashd_seq + 1 IN
           /\ agent' = [agent EXCEPT !.cmd = next_seq]
           /\ main' = [calls("bench", "bench", CMD_TIMEOUT) EXCEPT !.seq = next_seq]
    /\ budget' = [budget EXCEPT !.ops = @ - 1]
    /\ UNCHANGED <<agent_svc, minder_state, minder_jh, agent_files, mutex, prog, minders,
                   refresh_ok>>
    /\ UNCHANGED slice_vars

\* The agent finds a command whose bench_hashd_seq is above the hashd_seq of
\* its bench file and starts the benchmark.
AgentBenchStart ==
    /\ agent.unit = "Running" /\ agent.reporting
    /\ agent.runner = "Running"
    /\ agent.cmd > agent.report.hashd_seq
    /\ agent' = [agent EXCEPT !.runner = "BenchHashd"]
    /\ UNCHANGED <<agent_svc, minder_state, minder_jh, agent_files, mutex, prog, minders,
                   main, refresh_ok, budget>>
    /\ UNCHANGED slice_vars

\* The benchmark completes: the agent saves the bench file with the seq of
\* the command and goes back to running.
AgentBenchDone ==
    /\ agent.unit = "Running"
    /\ agent.runner = "BenchHashd"
    /\ agent' = [agent EXCEPT !.runner = "Running", !.report.hashd_seq = agent.cmd]
    /\ UNCHANGED <<agent_svc, minder_state, minder_jh, agent_files, mutex, prog, minders,
                   main, refresh_ok, budget>>
    /\ UNCHANGED slice_vars

BenchNext == RunNext \/ StartHashdBench \/ AgentBenchStart \/ AgentBenchDone

\* A benchmark run in which hashd benchmarks are commanded.
InitBench == SlicesIdle /\ RunInit

BenchSpec == InitBench /\ [][BenchNext]_vars

\* Every thread that has a step to take takes it, and time goes on.
FairRunSpec ==
    /\ RunSpec
    /\ WF_vars(Tick)
    /\ WF_vars(MainStep)
    /\ \A t \in Tids : WF_vars(MinderStep(t))

(***************************************************************************)
(* Properties of the passes over the slices.                               *)
(***************************************************************************)
HasEvent(ev, kinds) == \E i \in 1..Len(ev) : ev[i][1] \in kinds
has_line(lines, key) == IsSome(directive(lines, key, 1))

\* The slices whose drop-in the last pass wrote.
Written == {last.ev[i][2] : i \in {j \in 1..Len(last.ev) : last.ev[j][1] = "dropin_write"}}

\* C1: when apply_slices runs twice in succession, with the same inputs and
\* nothing else happening in between, the second pass writes no drop-in file
\* and issues no daemon_reload.
C1_ApplyIdempotent ==
    (last.op = "apply" /\ last.prev = "apply")
        => ~HasEvent(last.ev, {"dropin_write", "daemon_reload", "daemon_reload_failed"})

\* A second apply_slices in a row that succeeded, with all six drop-ins
\* on disk.
C1_Witness ==
    /\ last.op = "apply" /\ last.prev = "apply" /\ last.ret = "Ok"
    /\ DOMAIN dropin = SliceSet

\* The indices of the writes of a disable string in the events of a pass.
DisableWrites(ev) ==
    {i \in 1..Len(ev) : ev[i][1] \in {"sc_write", "sc_write_failed"} /\ EditOff[ev[i][3]] # {}}

\* C7: when the subtree toggler disables a controller, it writes the disable
\* string to every cgroup.subtree_control, in non-increasing order of path
\* length, so each cgroup is written before its ancestors and the root last.
\* (The events carry the cgroup's path; the file's path is that path with
\* the same suffix for all.)
C7_DisableOrdering ==
    last.op = "verify" =>
        /\ \A i, j \in DisableWrites(last.ev) :
               i < j => /\ Len(last.ev[i][2]) >= Len(last.ev[j][2])
                        /\ ~is_under(last.ev[j][2], last.ev[i][2])
                        /\ last.ev[i][2] # CgroupRoot
        /\ DisableWrites(last.ev) # {} =>
               {last.ev[i][2] : i \in DisableWrites(last.ev)} = DOMAIN cg

\* A verify pass that disabled cpu in a tree with nested cgroups, where the
\* write to one of them failed.
C7_Witness ==
    /\ last.op = "verify"
    /\ Cardinality(DisableWrites(last.ev)) >= 9
    /\ HasEvent(last.ev, {"sc_write_failed"})

EventsOf(ev, kinds) == {i \in 1..Len(ev) : ev[i][1] \in kinds}

\* What the gates do keep back: with disable_seqs.mem at or past the instance
\* seq the Work drop-in has no MemoryLow line and the verifier only ever
\* resets Work's memory.low; with disable_seqs.cpu there, the verifier writes
\* no cpu.weight and the toggler no +cpu; with disable_seqs.io there, the
\* verifier writes no io.weight.
GatesKept ==
    /\ (last.op = "apply" /\ knobs.disable_seqs.mem >= InstanceSeq /\ "Work" \in Written)
           => ~has_line(dropin["Work"], "MemoryLow")
    /\ (last.op = "verify" /\ knobs.disable_seqs.mem >= InstanceSeq)
           => \A i \in EventsOf(last.ev, {"cg_write"}) :
                  (last.ev[i][2] = cgrp("Work") /\ last.ev[i][3] = "memory.low")
                      => last.ev[i][4] = "0"
    /\ (last.op = "verify" /\ knobs.disable_seqs.cpu >= InstanceSeq)
           => /\ \A i \in EventsOf(last.ev, {"cg_write", "cg_write_failed"}) :
                     last.ev[i][3] # "cpu.weight"
              /\ \A i \in EventsOf(last.ev, {"sc_write", "sc_write_failed"}) :
                     "cpu" \notin EditOn[last.ev[i][3]]
    /\ (last.op = "verify" /\ knobs.disable_seqs.io >= InstanceSeq)
           => \A i \in EventsOf(last.ev, {"cg_write", "cg_write_failed"}) :
                  last.ev[i][3] # "io.weight"

\* C2, as amended: the gates keep back Work's MemoryLow line, the verifier's
\* cpu.weight and io.weight writes and the toggler's +cpu token; the
\* CPUWeight and IOWeight lines and the +io token follow cfg.enforce alone.
C2_GatesAmended == GatesKept

\* C2: with disable_seqs.X at or past the instance seq, no drop-in written by
\* apply_slices has a CPUWeight, IOWeight or (for Work) MemoryLow line, the
\* verifier writes no cpu.weight or io.weight, and the toggler writes no +cpu
\* or +io token.
C2_GateMonotonicity ==
    /\ GatesKept
    /\ (last.op = "apply" /\ knobs.disable_seqs.cpu >= InstanceSeq)
           => \A slice \in Written : ~has_line(dropin[slice], "CPUWeight")
    /\ (last.op = "apply" /\ knobs.disable_seqs.io >= InstanceSeq)
           => \A slice \in Written : ~has_line(dropin[slice], "IOWeight")
    /\ (last.op = "verify" /\ knobs.disable_seqs.io >= InstanceSeq)
           => \A i \in EventsOf(last.ev, {"sc_write", "sc_write_failed"}) :
                  "io" \notin EditOn[last.ev[i][3]]

\* A verify pass with every gate closed and everything enforced that ran the
\* toggler and fixed attribute files, after the drop-ins were written.
C2_Witness ==
    /\ last.op = "verify"
    /\ knobs.disable_seqs = AllDisabled /\ cfg.enforce = AllOn
    /\ HasEvent(last.ev, {"sc_write"}) /\ HasEvent(last.ev, {"cg_write"})
    /\ DOMAIN dropin = SliceSet /\ ~has_line(dropin["Work"], "MemoryLow")

SliceCgroups == {cgrp(slice) : slice \in SliceSet}

\* C8: after apply_slices, once the unit manager has realized the drop-ins,
\* verify_and_fix_slices with the same knobs and cfg writes no attribute file
\* of any slice, for every combination of enforce flags and disable_seqs.
C8_RoundTrip ==
    [][(last.op = "realize" /\ last.prev = "apply" /\ broken = NoFault
        /\ last'.op = "verify")
           => \A i \in EventsOf(last'.ev, {"cg_write", "cg_write_failed"}) :
                  last'.ev[i][2] \notin SliceCgroups]_vars

\* C10: fix_cgrp_mem writes a memory file, and applies the unit's overrides,
\* only after reading a value that is neither equal to the target nor, for a
\* target above zero, within 10% of it, both clamped to total_memory and
\* "max" read as u64::MAX.  Every such write follows the "should be ... but
\* is ..." message, which carries the value read and the value expected.
C10_ToleranceRule ==
    last.op = "verify" =>
        /\ \A i \in EventsOf(last.ev, {"cg_write", "cg_write_failed"}) :
               last.ev[i][3] \in {"memory.min", "memory.low", "memory.high", "memory.max"}
                   => /\ i > 1
                      /\ last.ev[i - 1][1] = "mem_fix"
                      /\ last.ev[i - 1][2] = last.ev[i][2]
                      /\ last.ev[i - 1][3] = last.ev[i][3]
        /\ \A i \in EventsOf(last.ev, {"unit_apply", "unit_apply_failed"}) :
               i > 2 /\ last.ev[i - 1][1] = "cg_write" /\ last.ev[i - 2][1] = "mem_fix"
        /\ \A i \in EventsOf(last.ev, {"mem_fix"}) :
               \/ parse_mem(last.ev[i][5]) = None
               \/ /\ Min(Unwrap(parse_mem(last.ev[i][5])), TotalMemory)
                         # Min(Unwrap(parse_mem(last.ev[i][4])), TotalMemory)
                  /\ \/ Min(Unwrap(parse_mem(last.ev[i][4])), TotalMemory) = 0
                     \/ 10 * Abs(Min(Unwrap(parse_mem(last.ev[i][5])), TotalMemory)
                                 - Min(Unwrap(parse_mem(last.ev[i][4])), TotalMemory))
                            >= Min(Unwrap(parse_mem(last.ev[i][4])), TotalMemory)

\* A verify pass that left Work's memory.low at 21 where 20 was intended,
\* and fixed other files.
C10_Witness ==
    /\ last.op = "verify" /\ last.prev = "drift" /\ last.ret = "Ok"
    /\ cfg.enforce.mem /\ knobs.disable_seqs.mem < InstanceSeq
    /\ knobs.slices["Work"].mem_low = Bytes(20)
    /\ cg[cgrp("Work")]["memory.low"] = "21"
    /\ HasEvent(last.ev, {"mem_fix"})

(***************************************************************************)
(* Properties of the run context.                                          *)
(***************************************************************************)
AgentError(state) == <<"Err", "agent error", state>>
Returned(op) == main.pc = "idle" /\ main.op = op
Pending(op) == main.op = op /\ main.pc \in {"check", "wait", "blocked"}

\* The agent was killed while a wait_cond with a predicate that never holds
\* and a timeout of LongTimeout was pending, the minder minding.
KilledInLongWait ==
    /\ main.op = "wait" /\ main.cond = "never" /\ main.timeout = LongTimeout
    /\ main.killed # None

C4_MinderStateFrozen == [][minder_state # Ok => minder_state' = minder_state]_vars

\* C4 as the code has it: once minder_state is not Ok it never is Ok again.
C4_MinderStateMonotonic == [][minder_state # Ok => minder_state' # Ok]_vars

\* A minder started after the failure is at its tick.
C4_Witness ==
    /\ minder_state # Ok
    /\ main.op = "start" /\ main.at_call # Ok
    /\ \E t \in Tids : minders[t].pc = "status"

\* C5 as stated: once minder_state is not Ok, every wait_cond called from
\* then on fails with an error that carries that state, whatever its
\* predicate and its timeout.
C5_FailureSticky ==
    (Returned("wait") /\ main.at_call # Ok) => main.result = AgentError(main.at_call)

\* C5 as the code has it: a wait_cond called when minder_state is not Ok
\* returns at its first check, Ok when its predicate holds there and else
\* the error that carries the state the minder has left there, which is
\* not Ok.
C5_FailureStickyUnlessCond ==
    /\ (Pending("wait") /\ main.at_call # Ok) => main.pc = "check" /\ main.left = main.timeout
    /\ (Returned("wait") /\ main.at_call # Ok)
           => /\ main.obs.minder_state # Ok
              /\ main.result = IF main.obs.cond THEN <<"Ok">>
                                ELSE AgentError(main.obs.minder_state)

C5_Witness ==
    /\ Returned("wait") /\ main.at_call # Ok /\ main.cond = "never"
    /\ main.result = AgentError(main.at_call)

\* What a wait_cond returned agrees with what it saw at its last check.
ReturnedAsObserved ==
    Returned("wait")
        => /\ main.result = <<"Ok">> <=> main.obs.cond
           /\ \/ main.result = <<"Ok">>
              \/ main.result = AgentError(main.obs.minder_state) /\ main.obs.minder_state # Ok
              \/ main.result = <<"Err", "timeout">> /\ main.obs.expired
              \/ main.result = <<"Err", "exiting">> /\ main.obs.prog = "Exiting"

\* C6: wait_cond_fallible returns Ok exactly when it saw its predicate hold;
\* every other return is an error that comes from a minder state that is not
\* Ok, from the expiry of the timeout or from the program exiting; and with a
\* finite timeout it always returns.
C6_WaitReturns == []ReturnedAsObserved /\ (Pending("wait") ~> Returned("wait"))

C6_Witness == Returned("wait") /\ main.result = <<"Err", "timeout">> /\ main.timeout = LongTimeout

\* The minder threads that run: spawned and not yet at their end.
Running == {t \in Tids : minders[t].pc \in {"sleep", "status", "exit"}}

\* C11 as stated: in every state the number of running minder threads is 1
\* when agent_svc is Some and 0 when agent_svc is None.
C11_OneMinderPerService ==
    Cardinality(Running) = IF agent_svc # None THEN 1 ELSE 0

\* C11 as the code has it: never more than one minder thread runs; exactly
\* one runs while agent_svc is Some, minder_state is Ok and the program is
\* not exiting; none runs while agent_svc is None and no call of
\* start_agent_fallible or stop_agent is under way.  A minder that has given
\* its verdict ends while agent_svc stays Some, and the minder of a stopped
\* service runs on until stop_agent has joined it.
C11_AtMostOneMinder ==
    /\ Cardinality(Running) <= 1
    /\ (agent_svc # None /\ minder_state = Ok /\ prog.state = "Running")
           => Cardinality(Running) = 1
    /\ (agent_svc = None /\ main.pc = "idle") => Running = {}

\* The minder has ended on its verdict and the service is still held, the
\* caller back from its call.
\* The second agent of a run is up and minded, the first one stopped and its
\* minder joined.
C11_Witness ==
    /\ agent_svc # None /\ minder_state = Ok /\ Cardinality(Running) = 1
    /\ Returned("start") /\ main.result = <<"Ok">>
    /\ budget.ops <= MaxOps - 3

\* The errors start_agent_fallible returns before it has started anything.
NotStarted == {<<"Err", "already running">>, <<"Err", "start failed">>}

Stopping == main.pc \in {"stop_take", "stop_jh", "join"}

\* C13: stop_agent takes and drops the service and kicks before it takes the
\* join handle; the lock is held by nobody but a minder in its tick, so never
\* by the caller that joins; every stop_agent comes to its end, whatever the
\* minder is doing; and at its end agent_svc and minder_jh are None and no
\* minder thread is left.
C13_Shutdown ==
    /\ [][/\ (main.pc = "stop_take" /\ main'.pc # "stop_take")
                 => /\ main'.pc = "stop_jh"
                    /\ agent_svc' = None /\ agent'.unit = "none"
                    /\ prog.state = "Running" => prog'.kicked
                    /\ minder_jh' = minder_jh
          /\ main.pc = "join" => mutex \in {None} \cup {Some(t) : t \in Running}
          /\ (Stopping /\ main'.pc = "idle")
                 => /\ agent_svc' = None /\ minder_jh' = None
                    /\ \A t \in Tids : minders'[t].pc = "unborn"]_vars
    /\ Stopping ~> main.pc = "idle"

\* A stop_agent has taken down an agent whose report a minder had read, and
\* has joined that minder.
C13_Witness ==
    /\ Returned("stop") /\ agent_svc = None /\ minder_jh = None /\ Running = {}
    /\ agent_files.state = "Running" /\ agent.unit = "none"

(***************************************************************************)
(* Properties of the drop-ins and of the verifier's fixes.                 *)
(***************************************************************************)
\* The slices whose drop-in the last apply_slices has written or, when it
\* came to its end, has found as it would write it.
Settled ==
    Written \cup (IF last.ret = "Ok"
                  THEN {slice \in DOMAIN dropin : slice_enforced(cfg.enforce, slice)}
                  ELSE {})

\* A byte count as the unit manager takes it.
BytesText(v) == IF v = U64_MAX THEN "infinity" ELSE ToString(v)

\* The body of a slice's drop-in: the banner, the section, and one line for
\* each field that is present, in their order.
DropinBody(slice, cpu, io, min, low, high) ==
    <<"# Generated by rd-agent. Do not edit directly.",
      IF slice = "Init" THEN "[Scope]" ELSE "[Slice]">>
        \o (IF cpu THEN <<"CPUWeight=" \o ToString(knobs.slices[slice].cpu_weight)>> ELSE <<>>)
        \o (IF io THEN <<"IOWeight=" \o ToString(knobs.slices[slice].io_weight)>> ELSE <<>>)
        \o (IF min THEN <<"MemoryMin=" \o BytesText(nr_bytes(knobs.slices[slice].mem_min, FALSE))>>
            ELSE <<>>)
        \o (IF low THEN <<"MemoryLow=" \o BytesText(nr_bytes(knobs.slices[slice].mem_low, FALSE))>>
            ELSE <<>>)
        \o (IF high THEN <<"MemoryHigh=" \o BytesText(nr_bytes(knobs.slices[slice].mem_high, TRUE))>>
            ELSE <<>>)

\* Memory is enforced for the slice.
MemEnforced(slice) ==
    cfg.enforce.mem \/ (cfg.enforce.crit_mem_prot /\ slice \in {"Host", "Init"})

\* C14 as stated: the drop-in apply_slices leaves for a slice is the banner,
\* [Slice] or [Scope], and one line per present field in the order CPUWeight,
\* IOWeight, MemoryMin, MemoryLow, MemoryHigh, byte counts as integers and
\* u64::MAX as infinity; cpu_weight is present iff enforce.cpu, io_weight iff
\* enforce.io, and each of the three memory fields iff memory is enforced for
\* the slice.
C14_DropinContent ==
    last.op = "apply"
        => \A slice \in Settled :
               dropin[slice] = DropinBody(slice, cfg.enforce.cpu, cfg.enforce.io,
                                          MemEnforced(slice), MemEnforced(slice),
                                          MemEnforced(slice))

\* C14 as the code has it: the same, but for MemoryLow of the Work slice,
\* which is present iff memory is enforced and disable_seqs.mem is below the
\* instance seq.
C14_DropinContentGated ==
    last.op = "apply"
        => \A slice \in Settled :
               dropin[slice] = DropinBody(slice, cfg.enforce.cpu, cfg.enforce.io,
                                          MemEnforced(slice),
                                          MemEnforced(slice)
                                              /\ ~(slice = "Work"
                                                   /\ knobs.disable_seqs.mem >= InstanceSeq),
                                          MemEnforced(slice))

\* An apply_slices has written the drop-ins of all six slices with only the
\* critical memory protection and io enforced, so that Host and Init carry
\* the memory lines and the others do not.
C14_Witness ==
    /\ last.op = "apply" /\ last.ret = "Ok" /\ Written = SliceSet
    /\ cfg.enforce = [cpu |-> FALSE, io |-> TRUE, mem |-> FALSE, crit_mem_prot |-> TRUE]
    /\ Len(dropin["Init"]) = 6 /\ Len(dropin["Work"]) = 3

\* C15: with disable_seqs.mem at or past the instance seq and memory
\* enforced, the drop-in apply_slices leaves for Work has no MemoryLow line,
\* and the drop-in of every other slice memory is enforced for has its
\* MemoryMin, MemoryLow and MemoryHigh lines.
C15_GatedMemoryLow ==
    (last.op = "apply" /\ knobs.disable_seqs.mem >= InstanceSeq)
        => \A slice \in Settled :
               MemEnforced(slice)
                   => IF slice = "Work"
                      THEN ~has_line(dropin[slice], "MemoryLow")
                      ELSE /\ has_line(dropin[slice], "MemoryMin")
                           /\ has_line(dropin[slice], "MemoryLow")
                           /\ has_line(dropin[slice], "MemoryHigh")

\* An apply_slices with the memory gate closed has written the drop-ins of
\* Work and of the other slices, memory enforced for all of them.
C15_Witness ==
    /\ last.op = "apply" /\ knobs.disable_seqs.mem >= InstanceSeq /\ cfg.enforce.mem
    /\ Written = SliceSet
    /\ ~has_line(dropin["Work"], "MemoryLow") /\ has_line(dropin["Work"], "MemoryMin")
    /\ has_line(dropin["Side"], "MemoryLow")

\* The cpu weight the unit manager has for a slice: its override when it has
\* one, else the CPUWeight of the drop-in it has loaded, else none.
ManagerCpuWeight(u, l, slice) ==
    IF IsSome(u[name(slice)].resctl.cpu_weight)
    THEN ToString(Unwrap(u[name(slice)].resctl.cpu_weight))
    ELSE IF slice \in DOMAIN l /\ has_line(l[slice], "CPUWeight")
    THEN Unwrap(directive(l[slice], "CPUWeight", 1))
    ELSE "none"

\* A verify_and_fix_slices that came to its end, cpu enforced and not gated
\* off, found the cpu.weight of the slice different from the intended one.
FixesCpu(slice) ==
    /\ last'.op = "verify" /\ last'.ret = "Ok"
    /\ cfg.enforce.cpu /\ knobs.disable_seqs.cpu < InstanceSeq
    /\ cgrp(slice) \in DOMAIN cg
    /\ cg[cgrp(slice)]["cpu.weight"] # ToString(knobs.slices[slice].cpu_weight)

\* C16 as stated: when a slice's cpu.weight differs from the intended
\* cpu_weight, cpu enforced and not gated off, then after
\* verify_and_fix_slices the file holds the intended value and the unit
\* manager has the intended value as the slice's cpu weight.
C16_VerifierFixesCpu ==
    [][\A slice \in SliceSet :
           FixesCpu(slice)
               => /\ cg'[cgrp(slice)]["cpu.weight"] = ToString(knobs.slices[slice].cpu_weight)
                  /\ ManagerCpuWeight(units', loaded', slice)
                         = ToString(knobs.slices[slice].cpu_weight)]_vars

\* C16 as the code has it: the file holds the intended value afterwards; the
\* verifier leaves the unit manager's cpu weight as it was, which is the
\* intended value when the unit manager has loaded the slice's drop-in.
C16_VerifierFixesCpuFile ==
    [][\A slice \in SliceSet :
           FixesCpu(slice)
               => /\ cg'[cgrp(slice)]["cpu.weight"] = ToString(knobs.slices[slice].cpu_weight)
                  /\ ManagerCpuWeight(units', loaded', slice)
                         = ManagerCpuWeight(units, loaded, slice)
                  /\ slice \in DOMAIN loaded
                         => ManagerCpuWeight(units', loaded', slice)
                                = ToString(knobs.slices[slice].cpu_weight)]_vars

\* The cpu.weight of the Work slice was set to 50 behind the agent's back,
\* its drop-in loaded, and the verifier has written 100 into it.
C16_Witness ==
    /\ last.op = "verify" /\ last.prev = "drift" /\ last.ret = "Ok"
    /\ "Work" \in DOMAIN loaded
    /\ \E i \in EventsOf(last.ev, {"cg_write"}) :
           last.ev[i] = <<"cg_write", cgrp("Work"), "cpu.weight", "100">>
    /\ cg[cgrp("Work")]["cpu.weight"] = "100"

\* The least whole number that is at least three quarters of n.
ThreeQuarters(n) == CHOOSE k \in 0..n : 4 * k >= 3 * n /\ 4 * (k - 1) < 3 * n

\* C17: every apply_slices with work_mem_low_none set leaves
\* Bytes(ceil(hashd_mem_size * 0.75)) as Work.mem_low in the knobs and the
\* other knobs as they were, and the drop-in it builds for Work carries that
\* value; with work_mem_low_none not set the knobs stay as they are.
C17_WorkMemLow ==
    [][/\ ~knobs.work_mem_low_none => knobs' = knobs
       /\ (knobs.work_mem_low_none /\ last'.op = "apply")
              => /\ knobs' = [knobs EXCEPT !.slices["Work"].mem_low =
                                               Bytes(ThreeQuarters(hashd_mem_size))]
                 /\ ("Work" \in Written' /\ has_line(dropin'["Work"], "MemoryLow"))
                        => directive(dropin'["Work"], "MemoryLow", 1)
                               = Some(ToString(ThreeQuarters(hashd_mem_size)))]_vars

\* With work_mem_low_none set and a hashd_mem_size of 8, apply_slices has
\* made Work.mem_low 6 and written it into the drop-in of Work.
C17_Witness ==
    /\ last.op = "apply" /\ knobs.work_mem_low_none /\ hashd_mem_size = 8
    /\ knobs.slices["Work"].mem_low = Bytes(6)
    /\ "Work" \in Written /\ directive(dropin["Work"], "MemoryLow", 1) = Some("6")

(***************************************************************************)
(* Properties of the minder's tick.                                        *)
(***************************************************************************)
\* C18: a minder whose refresh of the unit fails in a tick, its last
\* refresh that succeeded more than MINDER_AGENT_TIMEOUT seconds back, sets
\* minder_state to AgentTimeout and goes to its exit; so refreshes that fail
\* from some instant on end in AgentTimeout some 30 seconds and a tick later.
C18_AgentTimeout ==
    [][\A t \in Tids :
           (/\ minders[t].pc = "status" /\ minders'[t] # minders[t]
            /\ ~refresh_ok
            /\ minders[t].ok_age > MINDER_AGENT_TIMEOUT)
               => minder_state' = AgentTimeout /\ minders'[t].pc = "exit"]_vars

\* The minder that set minder_state has given its last kick.
KickGiven == \A t \in Tids : minders[t].pc # "exit"

Reads(t) ==
    /\ minders[t].pc = "status" /\ minders'[t] # minders[t]
    /\ ~(~refresh_ok /\ minders[t].status_age > MINDER_AGENT_TIMEOUT)

\* C20: a minder that reads a state of the unit other than Running reads it
\* again, up to NrTries more times in the same tick and under the same lock;
\* it sets AgentNotRunning(state) and goes to its exit when, and only when,
\* the four states it has read in the tick are all other than Running; as
\* soon as it reads Running the tick goes on to the report with minder_state
\* as it was.
C20_AgentNotRunning ==
    [][\A t \in Tids :
           Reads(t)
               => /\ Len(minders[t].seen) = NrTries - minders[t].nr_tries
                  /\ \A i \in 1..Len(minders[t].seen) : minders[t].seen[i] # "Running"
                  /\ IF Unwrap(agent_svc') = "Running"
                     THEN /\ minders'[t].pc \in {"sleep", "exit"}
                          /\ minder_state' \in {minder_state, ReportTimeout}
                     ELSE IF Len(minders[t].seen) < NrTries
                     THEN /\ minders'[t].pc = "status" /\ mutex' = mutex
                          /\ minders'[t].seen = Append(minders[t].seen, Unwrap(agent_svc'))
                          /\ minder_state' = minder_state
                     ELSE /\ minders'[t].pc = "exit"
                          /\ minder_state' = AgentNotRunning(Unwrap(agent_svc'))]_vars

\* A minder has read three states other than Running in a tick, and the unit
\* is running again for its fourth read.
C20_Witness ==
    \E t \in Tids :
        /\ minders[t].pc = "status" /\ Len(minders[t].seen) = NrTries
        /\ agent.unit = "Running" /\ refresh_ok /\ minder_state = Ok

\* Minder t has read the state Running and goes on to the report.
Reports(t) == Reads(t) /\ Unwrap(agent_svc') = "Running"

\* C21: at a tick that reads the unit Running the minder refreshes the
\* snapshot of the agent's files and kicks; when the newest timestamp it has
\* seen in a report, or its own start when that is later, is more than
\* MINDER_AGENT_TIMEOUT seconds old it sets ReportTimeout and goes to its
\* exit, and else it leaves minder_state alone and sleeps.  ReportTimeout is
\* set nowhere else, so never while the report is at most that old.
C21_ReportTimeout ==
    [][/\ \A t \in Tids :
              Reports(t)
                  => /\ agent_files' = agent.report
                     /\ prog' = prog_kick(prog)
                     /\ IF minders[t].report_age > MINDER_AGENT_TIMEOUT
                           /\ agent.report.age > MINDER_AGENT_TIMEOUT
                        THEN minder_state' = ReportTimeout /\ minders'[t].pc = "exit"
                        ELSE /\ minder_state' = minder_state /\ minders'[t].pc = "sleep"
                             /\ minders'[t].report_age
                                    = Min(minders[t].report_age, agent.report.age)
       /\ minder_state' = ReportTimeout /\ minder_state # ReportTimeout
              => /\ \E t \in Tids : Reports(t)
                 /\ agent.report.age > MINDER_AGENT_TIMEOUT]_vars

\* The agent runs and has stopped reporting; a minder older than the timeout
\* has set ReportTimeout.
C21_Witness ==
    /\ minder_state = ReportTimeout
    /\ agent.unit = "Running" /\ ~agent.reporting
    /\ agent.report.age > MINDER_AGENT_TIMEOUT
    /\ \E t \in Tids : minders[t].pc = "exit"

\* C22: when the program is exiting, a minder that leaves its sleep for its
\* exit leaves minder_state as it is, a blocked wait_cond_fallible does not
\* wait on: the step that ends its wait returns the exiting error; and the
\* minders end and the caller is no longer blocked.
C22_Cancellation ==
    /\ [][/\ \A t \in Tids :
                minders[t].pc = "sleep" /\ minders'[t].pc = "exit"
                    => minder_state' = minder_state
          /\ main.pc = "blocked" /\ prog.state = "Exiting"
                => IF main'.pc = "blocked" THEN main'.left = main.left
                   ELSE /\ main'.result = <<"Err", "exiting">>
                        /\ main'.pc \in {"idle", "stop_take"}]_vars
    /\ prog.state = "Exiting" ~> (Running = {} /\ main.pc # "blocked")

\* The program was told to exit during a wait whose predicate never holds,
\* the minder had found nothing wrong: the wait has returned the exiting
\* error and the minder has ended.
C22_Witness ==
    /\ prog.state = "Exiting" /\ minder_state = Ok /\ agent_svc # None
    /\ Returned("wait") /\ main.cond = "never" /\ main.at_call = Ok
    /\ main.result = <<"Err", "exiting">>
    /\ \E t \in Tids : minders[t].pc = "done"

\* C23: in every apply_slices pass, one that fails at a later slice after it
\* wrote the drop-in of an earlier one included, a daemon_reload is issued
\* exactly once and after every drop-in write of the pass when the pass wrote
\* a drop-in, and not at all when it wrote none.
C23_ReloadAccounting ==
    last.op = "apply" =>
        IF Written # {}
        THEN /\ Cardinality(EventsOf(last.ev, {"daemon_reload", "daemon_reload_failed"})) = 1
             /\ \A i \in EventsOf(last.ev, {"dropin_write"}),
                   j \in EventsOf(last.ev, {"daemon_reload", "daemon_reload_failed"}) : i < j
        ELSE EventsOf(last.ev, {"daemon_reload", "daemon_reload_failed"}) = {}

\* The failures of the unit manager in the events of a pass, and the units
\* of the slices themselves.
UnitFailures == {"unit_lookup_failed", "unit_apply_failed", "unit_start_failed",
                 "unit_stop_failed"}
SliceUnits == {name(slice) : slice \in SliceSet}
OwnUnitFailed == \E i \in EventsOf(last.ev, UnitFailures) : last.ev[i][2] \in SliceUnits
DescUnitFailed == \E i \in EventsOf(last.ev, UnitFailures) : last.ev[i][2] \notin SliceUnits

\* The slices whose descendants the last pass cascaded into.
Propagated == {last.ev[i][2] : i \in EventsOf(last.ev, {"propagate"})}

\* A failure on a descendant's unit does not end a pass: its result is Ok
\* and the cascades of all the slices that have one were gone through.
DescendantsSkipped ==
    (last.op \in {"apply", "clear", "verify"} /\ DescUnitFailed)
        => /\ last.ret = "Ok"
           /\ last.op \in {"apply", "clear"}
                  => Propagated = {slice \in SliceSet :
                                       /\ slice_enforce_mem(cfg.enforce, slice)
                                       /\ slice_needs_mem_prot_propagation(slice)}

\* C24 as stated: a failure of the unit manager on the unit of a slice
\* itself makes apply_slices, clear_slices and verify_and_fix_slices return
\* an error; a failure on the unit of a descendant never ends the pass.
C24_UnitManagerFatal ==
    /\ (last.op \in {"apply", "clear", "verify"} /\ OwnUnitFailed) => last.ret = "Err"
    /\ DescendantsSkipped

\* C24 as the code has it: a failure of the unit manager on the unit of a
\* slice itself makes verify_and_fix_slices return an error, and so does a
\* failed daemon_reload in apply_slices and clear_slices; apply_slices and
\* clear_slices only log a failed start, lookup, apply or stop of a slice's
\* unit and go on to the end of the pass; a failure on the unit of a
\* descendant never ends the pass.
C24_UnitManagerPolicy ==
    /\ (last.op = "verify" /\ OwnUnitFailed)
           => last.ret = "Err" /\ last.ev[Len(last.ev)][1] \in UnitFailures
    /\ (last.op \in {"apply", "clear"} /\ HasEvent(last.ev, {"daemon_reload_failed"}))
           => last.ret = "Err"
    /\ (last.op = "apply" /\ OwnUnitFailed)
           => last.ret = "Ok" /\ HasEvent(last.ev, {"iocost"})
    /\ (last.op = "clear" /\ OwnUnitFailed)
           => /\ last.ret = "Ok"
              /\ last.prev = "apply" => DOMAIN dropin = {}
    /\ DescendantsSkipped

\* An apply_slices pass in which the start of the sideload slice failed: the
\* pass wrote its drop-in, reloaded and returned Ok.
C24_Witness ==
    /\ last.op = "apply" /\ last.ret = "Ok"
    /\ HasEvent(last.ev, {"unit_start_failed"})
    /\ "Side" \in Written
    /\ HasEvent(last.ev, {"daemon_reload"})

\* The failures of the file system in the events of the last pass: on an
\* attribute file of a slice's own cgroup, on a drop-in, on an attribute file
\* of a descendant, and on a cgroup.subtree_control.
CgFailures == EventsOf(last.ev, {"cg_read_failed", "cg_write_failed"})
OwnFileFailed ==
    \/ \E i \in CgFailures : last.ev[i][2] \in SliceCgroups
    \/ HasEvent(last.ev, {"dropin_read_failed", "dropin_write_failed"})
DescFileFailed ==
    \E i \in CgFailures :
        /\ last.ev[i][2] \notin SliceCgroups \cup {CgroupRoot}
        /\ last.ev[i][3] \in {"memory.min", "memory.low"}
EnableFailed == \E i \in EventsOf(last.ev, {"sc_write_failed"}) : EditOn[last.ev[i][3]] # {}
DisableFailed == \E i \in EventsOf(last.ev, {"sc_write_failed"}) : EditOff[last.ev[i][3]] # {}
Passes == {"apply", "clear", "verify"}

Listed(line) == ScSetOf[line]
ControllersDiffer(line) ==
    \/ cfg.enforce.cpu /\ ((knobs.disable_seqs.cpu < InstanceSeq) # ("cpu" \in Listed(line)))
    \/ cfg.enforce.io /\ "io" \notin Listed(line)
    \/ cfg.enforce.crit_mem_prot /\ "memory" \notin Listed(line)

\* C26: verify_and_fix_slices runs the subtree toggler exactly when the
\* controllers listed in the root's cgroup.subtree_control differ from the
\* expected ones, whatever the file holds, a line that lists cpuset and not
\* cpu included.
C26_ControllerCheck ==
    [][(last'.op = "verify" /\ last' # last)
           => (HasEvent(last'.ev, {"fix_overrides"})
                   <=> ControllersDiffer(cg[CgroupRoot]["cgroup.subtree_control"]))]_vars

\* The controller an attribute file belongs to.
ControllerOf(file) ==
    CASE file = "cpu.weight" -> "cpu"
      [] file = "io.weight" -> "io"
      [] OTHER -> "memory"
ScWrites == EventsOf(last.ev, {"sc_write", "sc_write_failed"})
AttrWrites == EventsOf(last.ev, {"cg_write", "cg_write_failed"})

\* C27: in a verify_and_fix_slices pass the write that enables a controller
\* in cgroup.subtree_control comes before every write of an attribute file
\* of that controller, and no write that disables a controller comes before
\* a write of an attribute file of that controller.
C27_ToggleOrdering ==
    last.op = "verify" =>
        \A i \in ScWrites, j \in AttrWrites :
            /\ ControllerOf(last.ev[j][3]) \in EditOn[last.ev[i][3]] => i < j
            /\ ControllerOf(last.ev[j][3]) \in EditOff[last.ev[i][3]] => j < i

\* A verify pass that switched cpu off everywhere and the other controllers
\* on, and then wrote io.weight and memory files of the slices.
C27_Witness ==
    /\ last.op = "verify" /\ last.ret = "Ok"
    /\ \E i \in ScWrites : "cpu" \in EditOff[last.ev[i][3]]
    /\ \E i \in ScWrites, j, k \in AttrWrites :
           /\ EditOn[last.ev[i][3]] = {"io", "memory"}
           /\ last.ev[j][3] = "io.weight" /\ last.ev[k][3] = "memory.low"

\* The slices below which memory protection is cascaded, and the override
\* a knob stands for in the cascade: none for None, else its bytes.
CascadeSlices ==
    {slice \in {"Host", "Init", "System", "User"} : slice_enforce_mem(cfg.enforce, slice)}
KnobOverride(knob) ==
    CASE knob.t = "None" -> None
      [] knob.t = "Max" -> Some(U64_MAX)
      [] knob.t = "Bytes" -> Some(knob.v)
      [] knob.t = "Percent" -> Some((knob.v * TotalMemory) \div 100)
CascadeTarget(slice) ==
    [cpu_weight |-> None, io_weight |-> None,
     mem_min |-> IF cfg.memcg_recursive_prot THEN None
                 ELSE KnobOverride(knobs.slices[slice].mem_min),
     mem_low |-> IF cfg.memcg_recursive_prot THEN None
                 ELSE KnobOverride(knobs.slices[slice].mem_low),
     mem_high |-> None, mem_max |-> None]

\* C28: apply_slices cascades below a slice only when the slice is one of
\* Host, Init, System and User and memory is enforced for it, and below each
\* of these exactly once in a pass that no failed drop-in cuts short; the
\* override set it cascades has mem_min and mem_low from the slice's knobs,
\* none for a None knob, when memcg_recursive_prot is off, and neither when
\* it is on; nothing else is set in it.
C28_CascadeTrigger ==
    last.op = "apply" =>
        /\ \A i \in EventsOf(last.ev, {"propagate"}) :
               /\ last.ev[i][2] \in CascadeSlices
               /\ last.ev[i][3] = CascadeTarget(last.ev[i][2])
               /\ \A j \in EventsOf(last.ev, {"propagate"}) :
                      last.ev[j][2] = last.ev[i][2] => j = i
        /\ ~HasEvent(last.ev, {"dropin_read_failed", "dropin_write_failed"})
               => Propagated = CascadeSlices

\* An apply pass with only the protection of the critical slices enforced:
\* the cascade went below Host and Init and no other slice.
C28_Witness ==
    /\ last.op = "apply" /\ last.ret = "Ok"
    /\ ~cfg.enforce.mem /\ cfg.enforce.crit_mem_prot /\ ~cfg.memcg_recursive_prot
    /\ Propagated = {"Host", "Init"}

\* The slice a descendant cgroup lies below, and the path of a cgroup below
\* the root of cgroupfs.
SliceAbove(p) == CHOOSE slice \in SliceSet : is_under(p, cgrp(slice))
BelowRoot(p) == SubSeq(p, Len("/sys/fs/cgroup") + 1, Len(p))

\* C29: a pass of apply_slices or clear_slices sets and applies the override
\* set of a descendant unit exactly when the cascade went below its slice,
\* the unit's ControlGroup is the path of its cgroup below /sys/fs/cgroup,
\* its state is Running or OtherActive and its override set is not the
\* target; every other descendant unit is left as it was.  So a second pass
\* in a row, with the same target, issues no apply when the applies of the
\* first succeeded.
C29_CascadeSkip ==
    /\ [][last'.op \in {"apply", "clear"}
              => \A p \in Descendants :
                     LET u == FileNameOf[p]
                         target == IF last'.op = "apply" THEN CascadeTarget(SliceAbove(p))
                                   ELSE UnitResCtlDefault
                         due == /\ SliceAbove(p) \in Propagated'
                                /\ units[u].cgroup = BelowRoot(p)
                                /\ units[u].state \in {"Running", "OtherActive"}
                                /\ units[u].resctl # target
                     IN  /\ due <=> \E i \in EventsOf(last'.ev, {"unit_apply", "unit_apply_failed"}) :
                                        last'.ev[i][2] = u
                         /\ units'[u] = IF due /\ broken # <<"apply", u>>
                                        THEN [units[u] EXCEPT !.resctl = target]
                                        ELSE units[u]]_vars
    /\ [](last.op \in {"apply", "clear"} /\ last.prev = last.op /\ broken[1] # "apply"
              => \A i \in EventsOf(last.ev, {"unit_apply", "unit_apply_failed"}) :
                     last.ev[i][2] \in SliceUnits)

\* An apply pass cascaded below the System slice: the scope got the target,
\* the service that is dead and the slice whose ControlGroup is elsewhere
\* were left as they were.
C29_Witness ==
    /\ last.op = "apply" /\ "System" \in Propagated
    /\ units["b.scope"].resctl = CascadeTarget("System")
    /\ units["sshd.service"].state = "Dead"
    /\ units["sshd.service"].resctl = UnitResCtlDefault
    /\ units["sub.slice"].cgroup # "/system.slice/sub.slice"
    /\ units["sub.slice"].resctl = UnitResCtlDefault
    /\ CascadeTarget("System") # UnitResCtlDefault

\* The events of a pass that tell of memory.high of the Work slice: a failed
\* read, the notice of a fix, a write.
WorkMemHigh(ev) ==
    {i \in EventsOf(ev, {"cg_read_failed", "mem_fix", "cg_write", "cg_write_failed"}) :
         ev[i][2] = cgrp("Work") /\ ev[i][3] = "memory.high"}

\* C30: a verify_and_fix_slices pass with workload_senpai set neither reads
\* nor writes memory.high of the Work slice and leaves the mem_high override
\* of its unit as it is; memory.high of every other slice whose memory is
\* enforced and whose cgroup exists is at its target when the pass has
\* returned Ok.
C30_SenpaiOwnsMemHigh ==
    [][(last'.op = "verify" /\ workload_senpai)
           => /\ WorkMemHigh(last'.ev) = {}
              /\ cgrp("Work") \in DOMAIN cg
                     => cg'[cgrp("Work")]["memory.high"] = cg[cgrp("Work")]["memory.high"]
              /\ units'[name("Work")].resctl.mem_high = units[name("Work")].resctl.mem_high
              /\ last'.ret = "Ok"
                     => \A slice \in SliceSet \ {"Work"} :
                            (slice_enforce_mem(cfg.enforce, slice) /\ cgrp(slice) \in DOMAIN cg)
                                => mem_settled(parse_mem(cg'[cgrp(slice)]["memory.high"]), TRUE,
                                               knobs.slices[slice].mem_high)]_vars

\* A verify pass with workload_senpai set: memory.high of the Work slice and
\* the override of its unit are off the knob's value and stay so, the read
\* of the file would have failed, and memory.high of the User slice was
\* fixed.
C30_Witness ==
    /\ last.op = "verify" /\ last.ret = "Ok" /\ workload_senpai
    /\ broken = <<"cgread", cgrp("Work"), "memory.high">>
    /\ cg[cgrp("Work")]["memory.high"] = "5"
    /\ units[name("Work")].resctl.mem_high = Some(5)
    /\ \E i \in EventsOf(last.ev, {"cg_write"}) :
           last.ev[i][2] = cgrp("User") /\ last.ev[i][3] = "memory.high"

MemFiles == {"memory.min", "memory.low", "memory.high", "memory.max"}

\* The writes of a memory file of a slice in the events of a pass.
SliceMemWrites(ev) ==
    {i \in EventsOf(ev, {"cg_write"}) : ev[i][2] \in SliceCgroups /\ ev[i][3] \in MemFiles}

\* C31: when the verifier fixes memory.min, memory.low, memory.max or
\* memory.high of a slice, it writes the target to the file first and then
\* applies the slice unit's override set with the field of that file set to
\* the target's byte count; a fix applies once for each write and never
\* without one.  After a fix that succeeded the file holds the target and the
\* override of the unit is the same amount.
C31_WriteThenReflect ==
    last.op = "verify" =>
        /\ \A i \in SliceMemWrites(last.ev) :
               /\ i < Len(last.ev)
               /\ last.ev[i + 1][1] \in {"unit_apply", "unit_apply_failed", "unit_lookup_failed"}
               /\ last.ev[i + 1][2] = FileNameOf[last.ev[i][2]]
               /\ last.ev[i + 1][1] = "unit_apply"
                      => /\ cg[last.ev[i][2]][last.ev[i][3]] = last.ev[i][4]
                         /\ override_of(units[last.ev[i + 1][2]].resctl, last.ev[i][3])
                                = parse_mem(last.ev[i][4])
                         /\ realized(units[last.ev[i + 1][2]].resctl, <<>>, last.ev[i][3])
                                = cg[last.ev[i][2]][last.ev[i][3]]
        /\ \A i \in EventsOf(last.ev, {"unit_apply", "unit_apply_failed", "unit_lookup_failed"}) :
               /\ i > 1 /\ last.ev[i - 1][1] = "cg_write" /\ last.ev[i - 1][3] \in MemFiles
               /\ last.ev[i][2] = FileNameOf[last.ev[i - 1][2]]

\* A verify pass that fixed memory.low and memory.high of the User slice:
\* the files and the overrides of the unit hold the targets, a byte count
\* and no limit.
C31_Witness ==
    /\ last.op = "verify" /\ last.ret = "Ok"
    /\ \E i, j \in SliceMemWrites(last.ev) :
           /\ last.ev[i][2] = cgrp("User") /\ last.ev[i][3] = "memory.low"
           /\ last.ev[j][2] = cgrp("User") /\ last.ev[j][3] = "memory.high"
    /\ cg[cgrp("User")]["memory.low"] = "8" /\ cg[cgrp("User")]["memory.high"] = "max"
    /\ units[name("User")].resctl.mem_low = Some(8)
    /\ units[name("User")].resctl.mem_high = Some(U64_MAX)

\* The override set of a slice's unit with every enforced dimension cleared,
\* the memory dimension being mem_min, mem_low and mem_high.
ClearedTriple(resctl, slice, ecfg) ==
    [cpu_weight |-> IF ecfg.cpu THEN None ELSE resctl.cpu_weight,
     io_weight |-> IF ecfg.io THEN None ELSE resctl.io_weight,
     mem_min |-> IF slice_enforce_mem(ecfg, slice) THEN None ELSE resctl.mem_min,
     mem_low |-> IF slice_enforce_mem(ecfg, slice) THEN None ELSE resctl.mem_low,
     mem_high |-> IF slice_enforce_mem(ecfg, slice) THEN None ELSE resctl.mem_high,
     mem_max |-> resctl.mem_max]

\* The events of the given kinds about a unit in the events of a pass.
UnitEvents(ev, kinds, unit) == {i \in EventsOf(ev, kinds) : ev[i][2] = unit}

\* C32: for every slice with an enforced dimension, clear_slices applies the
\* slice unit's override set with cpu_weight, io_weight and the memory triple
\* mem_min, mem_low, mem_high cleared where they are enforced, removes the
\* slice's drop-in, stops the slice iff it is Side, and cascades the empty
\* override set below the cascading slices.
C32_ClearPath ==
    [][last'.op = "clear"
           => \A slice \in SliceSet :
                  slice_enforced(cfg.enforce, slice)
                      => /\ broken # <<"lookup", name(slice)>>
                                => /\ UnitEvents(last'.ev, {"unit_apply", "unit_apply_failed"},
                                                 name(slice)) # {}
                                   /\ broken # <<"apply", name(slice)>>
                                          => units'[name(slice)].resctl
                                                 = ClearedTriple(units[name(slice)].resctl,
                                                                 slice, cfg.enforce)
                                   /\ slice = "Side"
                                          => UnitEvents(last'.ev, {"unit_stop", "unit_stop_failed"},
                                                        name(slice)) # {}
                         /\ slice # "Side"
                                => UnitEvents(last'.ev, {"unit_stop", "unit_stop_failed"},
                                              name(slice)) = {}
                         /\ broken # <<"remove", slice>> => slice \notin DOMAIN dropin'
                         /\ (slice_enforce_mem(cfg.enforce, slice)
                             /\ slice_needs_mem_prot_propagation(slice))
                                => \E i \in EventsOf(last'.ev, {"propagate"}) :
                                       /\ last'.ev[i][2] = slice
                                       /\ last'.ev[i][3] = UnitResCtlDefault]_vars

\* The events of a verifier pass that change something: a write of an
\* attribute file, an apply of a unit's override set, a write of a
\* cgroup.subtree_control, done or failed.
FixEvents ==
    {"cg_write", "cg_write_failed", "unit_apply", "unit_apply_failed", "sc_write",
     "sc_write_failed"}

\* C34: when verify_and_fix_slices has returned Ok and runs again at once,
\* with the same knobs, workload_senpai and cfg, nothing having changed in
\* between and no operation failing, the second pass writes no attribute
\* file, applies no unit and writes no cgroup.subtree_control.
C34_VerifierFixpoint ==
    [][(last.op = "verify" /\ last.ret = "Ok" /\ broken = NoFault /\ last'.op = "verify")
           => ~HasEvent(last'.ev, FixEvents)]_vars

\* The units of the descendant cgroups the last pass applied.
DescApplied ==
    {last.ev[i][2] : i \in {j \in EventsOf(last.ev, {"unit_apply"}) :
                                \E p \in Descendants : FileNameOf[p] = last.ev[j][2]}}

\* C36: after a cascade of apply_slices or clear_slices has applied to a
\* descendant unit, the unit has no cpu_weight, io_weight, mem_high or
\* mem_max override, whatever it had before, and its mem_min and mem_low
\* overrides are those of the target: the slice's knobs in apply_slices when
\* the kernel's recursive protection is off, and none otherwise.
C36_CascadeOverwrites ==
    last.op \in {"apply", "clear"} =>
        \A p \in Descendants :
            FileNameOf[p] \in DescApplied
                => /\ units[FileNameOf[p]].resctl.cpu_weight = None
                   /\ units[FileNameOf[p]].resctl.io_weight = None
                   /\ units[FileNameOf[p]].resctl.mem_high = None
                   /\ units[FileNameOf[p]].resctl.mem_max = None
                   /\ units[FileNameOf[p]].resctl.mem_min
                          = IF last.op = "apply" /\ ~cfg.memcg_recursive_prot
                            THEN KnobOverride(knobs.slices[SliceAbove(p)].mem_min) ELSE None
                   /\ units[FileNameOf[p]].resctl.mem_low
                          = IF last.op = "apply" /\ ~cfg.memcg_recursive_prot
                            THEN KnobOverride(knobs.slices[SliceAbove(p)].mem_low) ELSE None

\* An apply pass cascaded below the System slice into a scope that had
\* overrides of its own: they are gone and the protection of the slice is
\* in their place.
C36_Witness ==
    /\ last.op = "apply" /\ last.prev = "init" /\ ~cfg.memcg_recursive_prot
    /\ "b.scope" \in DescApplied
    /\ units["b.scope"].resctl =
           [UnitResCtlDefault EXCEPT !.mem_low = Some(2)]
    /\ units[name("Work")].resctl.mem_high = Some(5)

\* The events of a pass about a memory file of a slice: a failed read, the
\* notice of a fix, a write.
MemEvents(ev, slice, files) ==
    {i \in EventsOf(ev, {"cg_read_failed", "mem_fix", "cg_write", "cg_write_failed"}) :
         ev[i][2] = cgrp(slice) /\ ev[i][3] \in files}

\* A memory file of a slice is at the target the knob stands for.
AtTarget(c, slice, file, is_limit, knob) ==
    mem_settled(parse_mem(c[cgrp(slice)][file]), is_limit, knob)

\* C37: in a verify_and_fix_slices pass with memory enforced and
\* disable_seqs.mem at or past the instance seq, memory.max and memory.high
\* of the Work slice are neither read nor written, and memory.min and
\* memory.low of the Work slice are only ever written as 0 and are 0 when the
\* pass has returned Ok; memory.min, memory.low and memory.high of every
\* other slice whose memory is enforced and whose cgroup exists are then at
\* the targets of its knobs, and its memory.max is unlimited.
C37_WorkMemGateClosed ==
    [][(last'.op = "verify" /\ cfg.enforce.mem /\ knobs.disable_seqs.mem >= InstanceSeq)
           => /\ MemEvents(last'.ev, "Work", {"memory.max", "memory.high"}) = {}
              /\ cgrp("Work") \in DOMAIN cg
                     => /\ cg'[cgrp("Work")]["memory.max"] = cg[cgrp("Work")]["memory.max"]
                        /\ cg'[cgrp("Work")]["memory.high"] = cg[cgrp("Work")]["memory.high"]
              /\ \A i \in MemEvents(last'.ev, "Work", {"memory.min", "memory.low"}) :
                     last'.ev[i][1] = "cg_write" => last'.ev[i][4] = "0"
              /\ (last'.ret = "Ok" /\ cgrp("Work") \in DOMAIN cg)
                     => /\ AtTarget(cg', "Work", "memory.min", FALSE, KNone)
                        /\ AtTarget(cg', "Work", "memory.low", FALSE, KNone)
              /\ last'.ret = "Ok"
                     => \A slice \in SliceSet \ {"Work"} :
                            cgrp(slice) \in DOMAIN cg
                                => /\ AtTarget(cg', slice, "memory.min", FALSE,
                                               knobs.slices[slice].mem_min)
                                   /\ AtTarget(cg', slice, "memory.low", FALSE,
                                               knobs.slices[slice].mem_low)
                                   /\ AtTarget(cg', slice, "memory.high", TRUE,
                                               knobs.slices[slice].mem_high)
                                   /\ AtTarget(cg', slice, "memory.max", TRUE, KNone)]_vars

\* A verify pass with the gate closed that returned Ok where a read of the
\* Work slice's memory.max would have failed; it fixed memory.min of the
\* Host slice.
C37_Witness ==
    /\ last.op = "verify" /\ last.ret = "Ok"
    /\ cfg.enforce.mem /\ knobs.disable_seqs.mem >= InstanceSeq
    /\ broken = <<"cgread", cgrp("Work"), "memory.max">>
    /\ \E i \in MemEvents(last.ev, "Host", {"memory.min"}) : last.ev[i][1] = "cg_write"
    /\ cg[cgrp("Work")]["memory.low"] = "0"

\* The events of a pass about a slice: its drop-in, its unit, its cascade.
SliceEvents(ev, slice) ==
    {i \in 1..Len(ev) :
         \/ /\ ev[i][1] \in {"dropin_write", "dropin_write_failed", "dropin_read_failed",
                             "dropin_remove", "dropin_remove_failed", "propagate"}
            /\ ev[i][2] = slice
         \/ /\ ev[i][1] \in {"unit_start", "unit_start_failed", "unit_stop", "unit_stop_failed",
                             "unit_apply", "unit_apply_failed", "unit_lookup_failed"}
            /\ ev[i][2] = name(slice)}

\* Nothing is enforced for a slice: neither cpu nor io nor memory, nor, for
\* the Host and Init slices, the protection of the critical slices.
Unenforced(slice) ==
    /\ ~cfg.enforce.cpu /\ ~cfg.enforce.io /\ ~cfg.enforce.mem
    /\ ~(cfg.enforce.crit_mem_prot /\ slice \in {"Host", "Init"})

\* C38: for a slice for which neither cpu nor io nor the memory-enforce
\* predicate holds, a pass of apply_slices or clear_slices does nothing: it
\* neither reads, writes nor removes the slice's drop-in, so one left by an
\* earlier run stays on disk as it is; it neither looks up, starts, stops
\* nor applies the slice's unit; and it cascades nothing below the slice, so
\* the units below it stay as they are.
C38_UnenforcedUntouched ==
    [][last'.op \in {"apply", "clear"}
           => \A slice \in SliceSet :
                  Unenforced(slice)
                      => /\ SliceEvents(last'.ev, slice) = {}
                         /\ slice \in DOMAIN dropin' <=> slice \in DOMAIN dropin
                         /\ slice \in DOMAIN dropin => dropin'[slice] = dropin[slice]
                         /\ units'[name(slice)] = units[name(slice)]
                         /\ cgrp(slice) \in DOMAIN cg' <=> cgrp(slice) \in DOMAIN cg
                         /\ \A p \in Descendants :
                                is_under(p, cgrp(slice))
                                    => units'[FileNameOf[p]] = units[FileNameOf[p]]]_vars

\* A clear pass that enforces the protection of the critical slices only:
\* it removed the drop-ins of the Host and Init slices, and the drop-ins an
\* earlier run left for the four other slices are still on disk.
C38_Witness ==
    /\ last.op = "clear" /\ last.prev = "apply"
    /\ ~cfg.enforce.cpu /\ ~cfg.enforce.io /\ ~cfg.enforce.mem /\ cfg.enforce.crit_mem_prot
    /\ HasEvent(last.ev, {"dropin_remove"})
    /\ DOMAIN dropin = {"System", "User", "Work", "Side"}
    /\ \A slice \in DOMAIN dropin : dropin[slice] = Leftover[slice]

\* A call of start_agent_fallible begins.
StartCalled == main.pc = "idle" /\ main'.op = "start" /\ budget'.ops = budget.ops - 1

\* C39: start_agent_fallible on a run context that holds a service returns
\* the already-running error at once and changes nothing: the service and
\* its minder stay as they are, the test files are not prepared, no
\* transient service is started, no minder is spawned and minder_jh is the
\* handle it was.
C39_DoubleStartRejected ==
    [][(StartCalled /\ agent_svc # None)
           => /\ main'.pc = "idle"
              /\ main'.result = <<"Err", "already running">>
              /\ main'.did = {}
              /\ UNCHANGED <<agent_svc, minder_state, minder_jh, agent_files, mutex, prog,
                             minders, agent, refresh_ok>>]_vars

\* A second start was rejected while the agent of the first was up, its
\* minder running and minder_jh held.
C39_Witness ==
    /\ Returned("start") /\ main.result = <<"Err", "already running">>
    /\ agent_svc # None /\ minder_jh # None
    /\ Cardinality(Running) = 1
    /\ agent.unit = "Running"

\* A start_agent_fallible that got to start the agent, called when
\* minder_state was not Ok, has returned.
Restarted ==
    Returned("start") /\ main.at_call # Ok /\ main.result \notin NotStarted

BenchCalled == main.pc = "idle" /\ main'.op = "bench" /\ budget'.ops = budget.ops - 1
BenchReturns == Pending("bench") /\ main'.pc = "idle"
BenchPanics == Pending("bench") /\ main'.pc = "panicked"

\* What start_hashd_bench waits for, in the agent files as cached.
BenchSeen == agent_files.state = "BenchHashd" \/ agent_files.hashd_seq >= main.seq

\* The command is saved with the cached hashd_seq + 1, and nothing else of
\* the run context changes.
BenchCommandSaved ==
    BenchCalled
        => /\ mutex = None
           /\ agent'.cmd = agent_files.hashd_seq + 1
           /\ main'.seq = agent'.cmd
           /\ main'.timeout = CMD_TIMEOUT
           /\ UNCHANGED <<agent_svc, minder_state, minder_jh, agent_files, prog, minders>>

\* A start_hashd_bench that has panicked does not return, and one that waits
\* is over by the check that follows the expiry of its 10 seconds.
BenchBounded ==
    /\ main.pc = "panicked" => main'.pc = "panicked"
    /\ (Pending("bench") /\ main.left < 0 /\ main.pc = "check" /\ main' # main)
           => BenchReturns \/ BenchPanics
    /\ Pending("bench") => main.left >= -1

\* C33 as stated: start_hashd_bench, under the lock, saves a command whose
\* bench_hashd_seq is the last observed bench.hashd_seq + 1, which is above
\* the seq of every bench the agent has completed; it returns normally only
\* when the agent files show report state BenchHashd or a bench.hashd_seq
\* that has reached that seq; and it does not return normally, and panics,
\* when that is not seen within 10 seconds, when the minder state is not Ok
\* or when the exit is requested.
C33_BenchAcknowledged ==
    [][/\ BenchCommandSaved
       /\ BenchCalled => agent'.cmd > agent.report.hashd_seq
       /\ BenchReturns
              => BenchSeen /\ minder_state = Ok /\ prog.state # "Exiting"
       /\ BenchBounded]_vars

\* C33 as the code has it: the seq of the command is the cached
\* bench.hashd_seq + 1, whatever the agent has completed since the last
\* refresh; start_hashd_bench returns normally exactly from a check that
\* finds report state BenchHashd or bench.hashd_seq at that seq or above in
\* the cached files, whatever the minder state and the progress state are
\* then; a check that finds neither panics when the minder state is not Ok
\* or the 10 seconds are over, and goes on to wait otherwise; and the wait
\* panics when the program is exiting.
C33_BenchAcknowledgedAtCheck ==
    [][/\ BenchCommandSaved
       /\ BenchReturns
              => main.pc = "check" /\ BenchSeen /\ main'.result = <<"Ok">>
       /\ (Pending("bench") /\ main.pc = "check" /\ main' # main)
              => IF BenchSeen THEN BenchReturns
                 ELSE IF minder_state # Ok
                      THEN BenchPanics /\ main'.result = AgentError(minder_state)
                 ELSE IF main.left < 0
                      THEN BenchPanics /\ main'.result = <<"Err", "timeout">>
                 ELSE main'.pc = "wait"
       /\ BenchPanics
              => \/ main.pc = "check" /\ ~BenchSeen /\ (minder_state # Ok \/ main.left < 0)
                 \/ main.pc \in {"wait", "blocked"} /\ prog.state = "Exiting"
                       /\ main'.result = <<"Err", "exiting">>
       /\ BenchBounded]_vars

\* The agent has taken up the command: start_hashd_bench has waited and has
\* returned on the report of state BenchHashd, the bench not yet complete.
C33_Witness ==
    /\ Returned("bench") /\ main.result = <<"Ok">>
    /\ main.seq = 1 /\ agent.cmd = 1
    /\ agent_files.state = "BenchHashd" /\ agent_files.hashd_seq = 0
    /\ agent.runner = "BenchHashd"
    /\ minder_state = Ok

====
